---- MODULE Spec2Model ----
(***************************************************************************)
(* Pipeline orchestration of autovid (flows/main_flow.py): the Redis flag  *)
(* store, the Celery chains of stage tasks, the join try_generate_video    *)
(* and the CDN gate try_generate_final_video.                              *)
(*                                                                         *)
(* Every Redis command is one atomic step of the task that issues it; a    *)
(* task that issues several commands is a small process with a position    *)
(* (pc).  A Celery chain is a sequence of task names; a task that returns  *)
(* submits its successor, a task that raises ends the chain.               *)
(***************************************************************************)
EXTENDS Integers, Sequences, FiniteSets, TLC

\* ------------------------------------------------------------------ bounds
Projects == {1, 2}
\* store commands that raise plus gate keys that expire in one behaviour
MaxFaults == 1
\* concurrent callers of acquire_once in SpecAcquire
MaxCallers == 3
\* restart_stage requests in one behaviour
MaxRestarts == 1

\* ------------------------------------------------------- flags of the store
ReadyFlags == {"voiceover_ready", "images_ready"}
GateFlags == {"video_started", "cdn_enqueued"}
RunFlags == ReadyFlags \cup GateFlags
FlagNames == RunFlags \cup {"paused"}
\* f"{project_id}:{flag}"
Key(p, f) == <<p, f>>
Keys == Projects \X FlagNames
\* variant: the delete of cdn_enqueued left out
ClearOrderNoCdn == <<"voiceover_ready", "images_ready", "video_started">>
\* the order in which video_pipeline deletes the flags
ClearOrder == <<"voiceover_ready", "images_ready", "video_started", "cdn_enqueued">>

\* ------------------------------------------------------------------ chains
MainChain ==
    <<"generate_script", "generate_metadata", "generate_chunks",
      "start_post_chunks_branches">>
\* variant: the voiceover branch without its join evaluation
VoiceoverBranchNoJoin == <<"generate_voiceover", "mark_done">>
VoiceoverBranch == <<"generate_voiceover", "mark_done", "try_generate_video">>
PromptsBranch ==
    <<"generate_prompts", "generate_thumbnail", "generate_images", "mark_done",
      "try_generate_video">>
VideoChain == <<"generate_video", "try_generate_final_video">>

\* tasks wrapped by with_stage_logging
StageTasks ==
    {"generate_script", "generate_metadata", "generate_chunks", "generate_voiceover",
     "generate_prompts", "generate_thumbnail", "generate_images", "generate_video",
     "send_to_cdn"}

ChainTasks(c) ==
    CASE c = "pipeline" -> <<"video_pipeline">>
      [] c = "main" -> MainChain
      [] c = "voiceover" -> VoiceoverBranch
      [] c = "prompts" -> PromptsBranch
      [] c = "video" -> VideoChain
      [] c = "cdn" -> <<"send_to_cdn">>
      [] c = "dup" -> <<"try_generate_video">>
      [] c \in StageTasks -> <<c>>

TaskName(t) == ChainTasks(t.chain)[t.idx]

\* the readiness flag a branch's mark_done sets
ReadyFlagOf(c) == IF c = "voiceover" THEN "voiceover_ready" ELSE "images_ready"

VARIABLES
    store,        \* Redis db 5: store[k] iff key k is present (value '1')
    tasks,        \* task messages submitted and not finished, each with its position
    runs,         \* runs[p]: video_pipeline submissions for project p (0 or 1)
    videoSubmits, \* history: video chains launched for p since video_started was cleared
    cdnSubmits,   \* history: send_to_cdn enqueued for p since cdn_enqueued was cleared
    gateLost,     \* history: gate keys that expired or failed open since last cleared
    stale,        \* history: flags of p set before its current run and not yet deleted
    videoOk,      \* history: a generate_video of p returned since p's flags were cleared
    faults,       \* store commands that raised and keys that expired so far
    callers,      \* SpecAcquire: concurrent callers of acquire_once
    stageRec,     \* the Stage rows that exist for the running project, by stage name
    failedWork,   \* history: stages whose wrapped function raised in its latest run
    restarts,     \* restart_stage requests served so far
    sceneDuration,\* SceneDurationAnalyzer: the scene's audio length (tenths of a second)
    config,       \* LTX_VIDEO_CONFIG["duration_settings"] the analyzer reads
    parts,        \* the list calculate_scene_parts returned
    planned,      \* calculate_scene_parts has returned for sceneDuration
    fs,           \* the asset folders: fs[f], for a file f that exists, is "good",
                  \* "raw" or "small" (an mp4 that exists and fails mp4_quick_check)
    found,        \* the latest call of _find and what it returned
    phase,        \* SceneAnimationManager: where run() is
    enabled,      \* LTX_VIDEO_CONFIG["enabled"] as this run reads it
    todo,         \* scenes of the latest scan still to render in this cycle
    missing,      \* scenes the latest scan reported as missing
    scanned,      \* history: _scan_scenes was called in this run
    ltx_animations, \* self.ltx_animations: scenes whose waiters were launched
    waiter,       \* wait_and_animate of each launched scene: "waiting", "animating", "done"
    waited,       \* _wait_for_ltx_animation: seconds slept so far
    error,        \* what the exception run() raised names
    chunksVersion,\* times the chunk timings were rewritten
    runCount,     \* runs of the manager started so far
    job,          \* LTXVideoManager.animate_scene of each scene it was called for
    environ,      \* os.environ: RUNPOD_LTX_ID, NoVar when it is not set
    probe,        \* the status codes _validate_ltx_connectivity got, in order
    file_list,    \* file_list.txt as _concat last wrote it: scene id and clip
    final_video,  \* final_video.mp4: "none", or "made" by the latest _concat
    exits,        \* history: the external processes of _concat that exited non-zero
    chunkTime,    \* the time field of each chunk that has one: <<start, end>> (ms)
    partCall,     \* animate_scene_part: the call in progress or returned, <<>> before
    stopped,      \* the projects whose row has paused = True
    sel,          \* scene selection: the launch of one run and its checks, <<>> before
    loop,         \* calculate_scene_parts step by step: its locals, <<>> before
    lookups       \* the file each component resolved for one scene, <<>> before

\* the state outside the flag store and the task queue
plan == <<sceneDuration, config, parts, planned>>

scn == <<fs, found, phase, enabled, todo, missing, scanned, ltx_animations,
         waiter, waited, error, chunksVersion, runCount>>

\* the LTX jobs, the environment and what _concat leaves
late == <<partCall, stopped, sel, loop, lookups>>

asm == <<job, environ, probe, file_list, final_video, exits, chunkTime, late>>

ext == <<stageRec, failedWork, restarts, plan, scn, asm>>

vars ==
    <<store, tasks, runs, videoSubmits,
      cdnSubmits, gateLost, stale, videoOk, faults, callers, ext>>

hist == <<videoSubmits, cdnSubmits, gateLost, stale, videoOk>>

\* a task message as apply_async / delay publishes it
Message(p, run, chain, idx, src) ==
    [p |-> p, run |-> run, chain |-> chain, idx |-> idx, src |-> src,
     pc |-> "queued", n |-> 0, vo |-> FALSE, img |-> FALSE]

\* Celery chain: the successor a task that returned submits
Continue(t) ==
    IF t.idx < Len(ChainTasks(t.chain))
    THEN {Message(t.p, t.run, t.chain, t.idx + 1, t.src)}
    ELSE {}

\* variant: the successor is submitted whether or not the task raised
ChainAfterIgnoresFailure(t, raised) == Continue(t)
\* a task of a chain ended: a raise ends the chain, a return submits the successor
ChainAfter(t, raised) == IF raised THEN {} ELSE Continue(t)

\* ----------------------------------------------------------- store commands
\* variant: the comparison never matches (value compared with the integer 1)
IsPausedNever(p) == FALSE
\* is_paused: r.get(f"{project_id}:paused") == '1'
IsPaused(p) == store[Key(p, "paused")]

\* a store command answers (up) or raises; an expiry counts as a fault too
Fault(up) ==
    /\ up \/ faults < MaxFaults
    /\ faults' = IF up THEN faults ELSE faults + 1

\* variants: SET without NX; the result negated; GET in place of SET
AcquireOnceResultNoNx(k, up) == TRUE
AcquireOnceResultNegated(k, up) == IF up THEN store[k] ELSE TRUE
AcquireOnceStoreNoWrite(k, up) == store
\* acquire_once: r.set(key, '1', nx=True, ex=ttl); any exception returns True
AcquireOnceResult(k, up) == IF up THEN ~store[k] ELSE TRUE
AcquireOnceStore(k, up) == IF up THEN [store EXCEPT ![k] = TRUE] ELSE store

\* ------------------------------------------------------------ Stage rows
\* the name each task passes to with_stage_logging
StageName(name) ==
    CASE name = "generate_script" -> "script"
      [] name = "generate_metadata" -> "metadata"
      [] name = "generate_chunks" -> "chunks"
      [] name = "generate_voiceover" -> "voiceover"
      [] name = "generate_prompts" -> "prompts"
      [] name = "generate_thumbnail" -> "thumbnail"
      [] name = "generate_images" -> "images"
      [] name = "generate_video" -> "video"
      [] name = "send_to_cdn" -> "send_to_cdn"

StageNames == {StageName(name) : name \in StageTasks}
\* a stage name no task of the flow logs (generate_subtitles is never submitted)
RequestNames == StageNames \cup {"subtitles"}

NoStage == [exists |-> FALSE, completed |-> FALSE, error |-> FALSE]

\* the Stage row of a stage, NoStage when the query finds none
Row(stage) == IF stage \in DOMAIN stageRec THEN stageRec[stage] ELSE NoStage

\* the rows after the row of stage was added or updated (session.commit)
Committed(stage, rec) ==
    [n \in (DOMAIN stageRec) \cup {stage} |-> IF n = stage THEN rec ELSE stageRec[n]]

\* ------------------------------------------------- splitting a scene in parts
\* durations are in tenths of a second
\* LTX_VIDEO_CONFIG["duration_settings"]: 4.0 s, 5.0 s, 0.2 s
target_animation_duration == 40
max_animation_duration == 50
overlap_duration == 2

LTX_VIDEO_CONFIG ==
    [T |-> target_animation_duration, M |-> max_animation_duration,
     O |-> overlap_duration]

\* the longest scene under the settings of config.py, and the largest target
\* duration of the other settings
MaxDuration == 200
MaxTarget == 4

\* other settings, small so that every case of the loop happens
Configs ==
    {[T |-> t, M |-> m, O |-> o] :
       t \in 1..MaxTarget, m \in 1..(MaxTarget + 1), o \in 0..(MaxTarget - 1)}

\* the overlap is shorter than a part: each part starts after the one before
ValidOverlap(c) == 0 <= c.O /\ c.O < c.T

MinOf(a, b) == IF a <= b THEN a ELSE b

\* the part appended at current_start: (start, duration)
PartAtNoAbsorb(total, T, current_start) ==
    <<current_start, MinOf(T, total - current_start)>>

PartAt(total, T, current_start) ==
    LET remaining == total - current_start
        part_duration == MinOf(T, remaining)
    IN  \* remaining - part_duration < target_duration * 0.5
        IF 2 * (remaining - part_duration) < T
        THEN <<current_start, remaining>>
        ELSE <<current_start, part_duration>>

NextStart(part, O) == part[1] + part[2] - O

\* the while loop of calculate_scene_parts, from current_start on
RECURSIVE PartsFrom(_, _, _, _, _)
PartsFrom(total, T, O, current_start, acc) ==
    IF ~(current_start < total) THEN acc
    ELSE LET part == PartAt(total, T, current_start)
             acc1 == Append(acc, part)
         IN  IF part[1] + part[2] >= total THEN acc1
             ELSE PartsFrom(total, T, O, NextStart(part, O), acc1)

CalculateScenePartsAlwaysSplit(total_duration, c) ==
    IF total_duration <= 0 THEN <<>>
    ELSE PartsFrom(total_duration, c.T, c.O, 0, <<>>)

calculate_scene_parts(total_duration, c) ==
    IF total_duration <= 0 THEN <<>>
    ELSE IF total_duration <= c.M THEN << <<0, total_duration>> >>
    ELSE PartsFrom(total_duration, c.T, c.O, 0, <<>>)

\* what the analyzer can be given: a scene length and the settings
PlanInputs ==
    {<<d, LTX_VIDEO_CONFIG>> : d \in 0..MaxDuration}
      \cup {<<d, c>> : d \in 0..(5 * MaxTarget),
                       c \in {x \in Configs : ValidOverlap(x)}}

PlanInit ==
    /\ sceneDuration = 0
    /\ config = LTX_VIDEO_CONFIG
    /\ parts = <<>>
    /\ planned = FALSE

\* ------------------------------------------------------ scene files by name
\* the scene ids of chunks.json, and the ids that _find alone is asked about
SceneIds == {5, 6}
FindIds == {5, 12}

\* str(n): the decimal digits of n
RECURSIVE Str(_)
Str(n) == IF n < 10 THEN <<n>> ELSE Append(Str(n \div 10), n % 10)

\* s.zfill(z)
RECURSIVE Zfill(_, _)
Zfill(s, z) == IF Len(s) >= z THEN s ELSE Zfill(<<0>> \o s, z)

\* int(s)
RECURSIVE IntOf(_)
IntOf(s) == IF Len(s) = 0 THEN 0
            ELSE 10 * IntOf(SubSeq(s, 1, Len(s) - 1)) + s[Len(s)]

\* folder / f"scene_{num}.{ext}"; ext "animated" is scene_{num}_animated.mp4
Path(folder, num, extn) == [folder |-> folder, num |-> num, ext |-> extn]

Folders == {<<"scenes", "jpg">>, <<"audio", "mp3">>, <<"video", "mp4">>}

Files ==
    {Path(fe[1], Zfill(Str(n), z), fe[2]) :
       fe \in Folders, n \in SceneIds \cup FindIds, z \in 1..3}
      \cup {Path("video", Zfill(Str(n), 3), "animated") : n \in SceneIds}

\* _find found no file; no call of _find yet
None == [folder |-> "", num |-> <<>>, ext |-> ""]
NoCall == [folder |-> "", sid |-> <<>>, ext |-> "", path |-> None]

\* what a stat of path p finds: "none" when there is no such file
Stat(p) == IF p \in DOMAIN fs THEN fs[p] ELSE "none"

\* the folders after p was written (or replaced) with content v
Written(p, v) == [q \in (DOMAIN fs) \cup {p} |-> IF q = p THEN v ELSE fs[q]]

Exists(p) == Stat(p) # "none"

FindWidest(folder, sid, extn) ==
    IF Exists(Path(folder, Zfill(sid, 3), extn))
    THEN Path(folder, Zfill(sid, 3), extn) ELSE None

\* SceneAnimationManager._find: for z in (3, 2, 1)
RECURSIVE FindFrom(_, _, _, _)
FindFrom(folder, sid, extn, zs) ==
    IF zs = <<>> THEN None
    ELSE IF Exists(Path(folder, Zfill(sid, Head(zs)), extn))
         THEN Path(folder, Zfill(sid, Head(zs)), extn)
         ELSE FindFrom(folder, sid, extn, Tail(zs))

Find(folder, sid, extn) == FindFrom(folder, sid, extn, <<3, 2, 1>>)

\* files written to the folders in one behaviour of SpecFind
MaxFiles == 3

ScnInit ==
    /\ fs = [f \in {} |-> "good"]
    /\ found = NoCall
    /\ phase = "new"
    /\ enabled = FALSE
    /\ todo = {}
    /\ missing = {}
    /\ scanned = FALSE
    /\ ltx_animations = {}
    /\ waiter = [n \in {} |-> "off"]
    /\ waited = 0
    /\ error = {}
    /\ chunksVersion = 0
    /\ runCount = 0

\* os.environ.get finds no such variable
NoVar == <<"unset">>

AsmInit ==
    /\ job = [n \in {} |-> 0]
    /\ environ = NoVar
    /\ probe = <<>>
    /\ file_list = <<>>
    /\ final_video = "none"
    /\ exits = {}
    /\ chunkTime = [n \in {} |-> <<0, 0>>]
    /\ partCall = <<>>
    /\ stopped = {}
    /\ sel = <<>>
    /\ loop = <<>>
    /\ lookups = <<>>

ExtInit ==
    /\ stageRec = [n \in {} |-> NoStage]
    /\ failedWork = {}
    /\ restarts = 0
    /\ PlanInit
    /\ ScnInit
    /\ AsmInit

\* the store before the run: empty, or holding the four flags that an earlier
\* complete run of every project has left (gates within their TTL)
InitialStores ==
    {[k \in Keys |-> FALSE], [k \in Keys |-> k[2] \in RunFlags]}

Init ==
    /\ store \in InitialStores
    /\ tasks = {}
    /\ runs = [p \in Projects |-> 0]
    /\ videoSubmits = [p \in Projects |-> IF store[Key(p, "video_started")] THEN 1 ELSE 0]
    /\ cdnSubmits = [p \in Projects |-> IF store[Key(p, "cdn_enqueued")] THEN 1 ELSE 0]
    /\ gateLost = {}
    /\ stale = [p \in Projects |-> {}]
    /\ videoOk = [p \in Projects |-> store[Key(p, "cdn_enqueued")]]
    /\ faults = 0
    /\ callers = [c \in 1..MaxCallers |-> [key |-> <<0, "none">>, pc |-> "idle",
                                          result |-> FALSE]]
    /\ ExtInit

\* --------------------------------------------------------- entry of a run
\* create_project_api -> add_to_queue -> video_pipeline.delay.  A behaviour holds
\* one run, of one project (projects share no key); the runs before it are the
\* flags they left in the initial store.
AddToQueue(p) ==
    /\ \A q \in Projects : runs[q] = 0
    /\ runs' = [runs EXCEPT ![p] = 1]
    /\ tasks' = tasks \cup {Message(p, 1, "pipeline", 1, 0)}
    /\ UNCHANGED <<store, hist, callers, faults, ext>>

\* video_pipeline, line 102: if is_paused(project_id): return
VideoPipelineIsPaused(t, up) ==
    /\ Fault(up)
    /\ TaskName(t) = "video_pipeline"
    /\ t.pc = "queued"
    /\ IF up /\ ~IsPaused(t.p)
       THEN /\ tasks' = (tasks \ {t}) \cup {[t EXCEPT !.pc = "clear", !.n = 1]}
            /\ stale' = [stale EXCEPT ![t.p] = {f \in RunFlags : store[Key(t.p, f)]}]
       ELSE /\ tasks' = tasks \ {t}
            /\ UNCHANGED stale
    /\ UNCHANGED <<store, runs, videoSubmits,
                   cdnSubmits, gateLost, videoOk, callers, ext>>

\* video_pipeline, lines 108-125: one r.delete per step; after the last one the
\* main chain is submitted and update_project_status is called
VideoPipelineClear(t, up) ==
    /\ Fault(up)
    /\ TaskName(t) = "video_pipeline"
    /\ t.pc = "clear"
    /\ LET f == ClearOrder[t.n]
           k == Key(t.p, f)
           last == t.n = Len(ClearOrder)
       IN IF ~up
          THEN /\ tasks' = tasks \ {t}
               /\ UNCHANGED <<store, hist>>
          ELSE /\ store' = [store EXCEPT ![k] = FALSE]
               /\ tasks' = (tasks \ {t}) \cup
                          (IF last THEN {Message(t.p, t.run, "main", 1, 0)}
                                   ELSE {[t EXCEPT !.n = @ + 1]})
               /\ videoSubmits' = IF f = "video_started"
                                  THEN [videoSubmits EXCEPT ![t.p] = 0] ELSE videoSubmits
               /\ cdnSubmits' = IF f = "cdn_enqueued"
                                THEN [cdnSubmits EXCEPT ![t.p] = 0] ELSE cdnSubmits
               /\ gateLost' = gateLost \ {k}
               /\ stale' = [stale EXCEPT ![t.p] = @ \ {f}]
               /\ videoOk' = IF last THEN [videoOk EXCEPT ![t.p] = FALSE] ELSE videoOk
    /\ UNCHANGED <<runs, callers, ext>>

\* ------------------------------------------------------------ stage tasks
\* with_stage_logging: the wrapped function raising is logged "failed" and
\* re-raised; generate_thumbnail catches every exception and returns False
Raises(name, ok) == ~ok /\ name # "generate_thumbnail"

\* one stage task, run by a worker: log started, work, log finished or failed
RunStage(t, ok) ==
    /\ TaskName(t) \in StageTasks
    /\ LET name == TaskName(t)
           raised == Raises(name, ok)
       IN /\ tasks' = (tasks \ {t}) \cup ChainAfter(t, raised)
          /\ videoOk' = IF name = "generate_video" /\ ~raised
                        THEN [videoOk EXCEPT ![t.p] = TRUE] ELSE videoOk
    /\ UNCHANGED <<store, runs, videoSubmits, cdnSubmits,
                   gateLost, stale, callers, faults, ext>>

\* start_post_chunks_branches: both branches are submitted, no pause check
PostChunksMessages(t) ==
    {Message(t.p, t.run, "voiceover", 1, 0), Message(t.p, t.run, "prompts", 1, 0)}

StartPostChunksBranches(t) ==
    /\ TaskName(t) = "start_post_chunks_branches"
    /\ tasks' = (tasks \ {t}) \cup PostChunksMessages(t)
    /\ UNCHANGED <<store, runs, hist, callers, faults, ext>>

\* mark_done: r.set(key, '1'), no TTL; raises when the store is unreachable
MarkDone(t, up) ==
    /\ Fault(up)
    /\ TaskName(t) = "mark_done"
    /\ IF up
       THEN /\ store' = [store EXCEPT ![Key(t.p, ReadyFlagOf(t.chain))] = TRUE]
            /\ tasks' = (tasks \ {t}) \cup ChainAfter(t, FALSE)
       ELSE /\ tasks' = (tasks \ {t}) \cup ChainAfter(t, TRUE)
            /\ UNCHANGED store
    /\ UNCHANGED <<runs, hist, callers, ext>>


\* --------------------------------------------------- join: try_generate_video
\* line 34: if is_paused(project_id): return   (r.get raises when unreachable)
TryGenerateVideoIsPaused(t, up) ==
    /\ Fault(up)
    /\ TaskName(t) = "try_generate_video"
    /\ t.pc = "queued"
    /\ IF up /\ ~IsPaused(t.p)
       THEN /\ tasks' = (tasks \ {t}) \cup {[t EXCEPT !.pc = "get_voiceover"]}
       ELSE /\ tasks' = tasks \ {t}
    /\ UNCHANGED <<store, runs, videoSubmits,
                   cdnSubmits, gateLost, stale, videoOk, callers, ext>>

\* line 37: voiceover_ready = r.get(f"{project_id}:voiceover_ready")
TryGenerateVideoGetVoiceover(t, up) ==
    /\ Fault(up)
    /\ TaskName(t) = "try_generate_video"
    /\ t.pc = "get_voiceover"
    /\ tasks' = (tasks \ {t}) \cup
                (IF up
                 THEN {[t EXCEPT !.pc = "get_images",
                                 !.vo = store[Key(t.p, "voiceover_ready")]]}
                 ELSE {})
    /\ UNCHANGED <<store, runs, hist, callers, ext>>

\* variant: "or" in place of "and"
BothReadyEither(vo, img) == vo \/ img
\* line 39: if voiceover_ready and images_ready
BothReady(vo, img) == vo /\ img

\* lines 38-39 and 50-51: images_ready = r.get(...); the else branch only prints
TryGenerateVideoGetImages(t, up) ==
    /\ Fault(up)
    /\ TaskName(t) = "try_generate_video"
    /\ t.pc = "get_images"
    /\ LET img == store[Key(t.p, "images_ready")]
       IN tasks' = (tasks \ {t}) \cup
                   (IF up /\ BothReady(t.vo, img)
                    THEN {[t EXCEPT !.pc = "acquire", !.img = img]}
                    ELSE {})
    /\ UNCHANGED <<store, runs, hist, callers, ext>>

\* lines 46-49: chain(generate_video.si, try_generate_final_video.si).apply_async()
VideoChainMessages(t) == {Message(t.p, t.run, "video", 1, videoSubmits[t.p] + 1)}

\* lines 41-49: acquire_once(video_started), then the video chain is submitted
TryGenerateVideoAcquire(t, up) ==
    /\ Fault(up)
    /\ TaskName(t) = "try_generate_video"
    /\ t.pc = "acquire"
    /\ LET k == Key(t.p, "video_started")
           won == AcquireOnceResult(k, up)
       IN /\ store' = AcquireOnceStore(k, up)
          /\ tasks' = (tasks \ {t}) \cup (IF won THEN VideoChainMessages(t) ELSE {})
          /\ videoSubmits' = IF won THEN [videoSubmits EXCEPT ![t.p] = @ + 1]
                                    ELSE videoSubmits
          /\ gateLost' = IF up THEN gateLost ELSE gateLost \cup {k}
    /\ UNCHANGED <<runs, cdnSubmits, stale,
                   videoOk, callers, ext>>

\* ------------------------------------------- CDN gate: try_generate_final_video
\* line 56: if is_paused(project_id): return
TryGenerateFinalVideoIsPaused(t, up) ==
    /\ Fault(up)
    /\ TaskName(t) = "try_generate_final_video"
    /\ t.pc = "queued"
    /\ IF up /\ ~IsPaused(t.p)
       THEN /\ tasks' = (tasks \ {t}) \cup {[t EXCEPT !.pc = "acquire"]}
       ELSE /\ tasks' = tasks \ {t}
    /\ UNCHANGED <<store, runs, videoSubmits,
                   cdnSubmits, gateLost, stale, videoOk, callers, ext>>

\* line 65: send_to_cdn.delay(project_id)
CdnMessages(t) == {Message(t.p, t.run, "cdn", 1, t.src)}

\* lines 60-65: acquire_once(cdn_enqueued), then send_to_cdn is enqueued
TryGenerateFinalVideoAcquire(t, up) ==
    /\ Fault(up)
    /\ TaskName(t) = "try_generate_final_video"
    /\ t.pc = "acquire"
    /\ LET k == Key(t.p, "cdn_enqueued")
           won == AcquireOnceResult(k, up)
       IN /\ store' = AcquireOnceStore(k, up)
          /\ tasks' = (tasks \ {t}) \cup (IF won THEN CdnMessages(t) ELSE {})
          /\ cdnSubmits' = IF won THEN [cdnSubmits EXCEPT ![t.p] = @ + 1]
                                  ELSE cdnSubmits
          /\ gateLost' = IF up THEN gateLost ELSE gateLost \cup {k}
    /\ UNCHANGED <<runs, videoSubmits, stale,
                   videoOk, callers, ext>>

\* ------------------------------------------------------------- environment
\* the key {project_id}:paused is written from outside the flow
Pause(p) ==
    /\ runs[p] >= 1
    /\ ~IsPaused(p)
    /\ store' = [store EXCEPT ![Key(p, "paused")] = TRUE]
    /\ UNCHANGED <<tasks, runs, hist, callers, faults, ext>>

Resume(p) ==
    /\ IsPaused(p)
    /\ store' = [store EXCEPT ![Key(p, "paused")] = FALSE]
    /\ UNCHANGED <<tasks, runs, hist, callers, faults, ext>>

\* ex=ttl_seconds: a key set by acquire_once disappears after its TTL
Expire(p, f) ==
    /\ runs[p] >= 1
    /\ Fault(FALSE)
    /\ f \in GateFlags
    /\ store[Key(p, f)]
    /\ store' = [store EXCEPT ![Key(p, f)] = FALSE]
    /\ gateLost' = gateLost \cup {Key(p, f)}
    /\ stale' = [stale EXCEPT ![p] = @ \ {f}]
    /\ UNCHANGED <<tasks, runs, videoSubmits,
                   cdnSubmits, videoOk, callers, ext>>

\* a redundant delivery of the task try_generate_video of p's latest run, one
\* at a time; its original was published after a mark_done, so a readiness flag
\* has been set
Duplicate(p) ==
    /\ runs[p] >= 1
    /\ \E f \in ReadyFlags : store[Key(p, f)]
    /\ ~\E t \in tasks : t.p = p /\ t.chain = "dup"
    /\ tasks' = tasks \cup {Message(p, runs[p], "dup", 1, 0)}
    /\ UNCHANGED <<store, runs, hist, callers, faults, ext>>

\* ------------------------------------------------------------ specifications
\* one step of any task, the store answering
TaskStep ==
    \E t \in tasks :
        \/ VideoPipelineIsPaused(t, TRUE)
        \/ VideoPipelineClear(t, TRUE)
        \/ \E ok \in BOOLEAN : RunStage(t, ok)
        \/ StartPostChunksBranches(t)
        \/ MarkDone(t, TRUE)
        \/ TryGenerateVideoIsPaused(t, TRUE)
        \/ TryGenerateVideoGetVoiceover(t, TRUE)
        \/ TryGenerateVideoGetImages(t, TRUE)
        \/ TryGenerateVideoAcquire(t, TRUE)
        \/ TryGenerateFinalVideoIsPaused(t, TRUE)
        \/ TryGenerateFinalVideoAcquire(t, TRUE)

\* Spec: the store is reachable and no gate expires; projects are paused and
\* resumed at any time; try_generate_video is delivered redundantly.
Next ==
    \/ \E p \in Projects : AddToQueue(p)
    \/ \E t \in tasks : VideoPipelineIsPaused(t, TRUE)
    \/ \E t \in tasks : VideoPipelineClear(t, TRUE)
    \/ \E t \in tasks, ok \in BOOLEAN : RunStage(t, ok)
    \/ \E t \in tasks : StartPostChunksBranches(t)
    \/ \E t \in tasks : MarkDone(t, TRUE)
    \/ \E t \in tasks : TryGenerateVideoIsPaused(t, TRUE)
    \/ \E t \in tasks : TryGenerateVideoGetVoiceover(t, TRUE)
    \/ \E t \in tasks : TryGenerateVideoGetImages(t, TRUE)
    \/ \E t \in tasks : TryGenerateVideoAcquire(t, TRUE)
    \/ \E t \in tasks : TryGenerateFinalVideoIsPaused(t, TRUE)
    \/ \E t \in tasks : TryGenerateFinalVideoAcquire(t, TRUE)
    \/ \E p \in Projects : Pause(p)
    \/ \E p \in Projects : Resume(p)
    \/ \E p \in Projects : Duplicate(p)

Spec == Init /\ [][Next]_vars

\* SpecFaults: no project is paused; up to MaxFaults store commands raise or
\* gate keys expire; try_generate_video is delivered redundantly.
NextFaults ==
    \/ \E p \in Projects : AddToQueue(p)
    \/ \E t \in tasks, up \in BOOLEAN : VideoPipelineIsPaused(t, up)
    \/ \E t \in tasks, up \in BOOLEAN : VideoPipelineClear(t, up)
    \/ \E t \in tasks, ok \in BOOLEAN : RunStage(t, ok)
    \/ \E t \in tasks : StartPostChunksBranches(t)
    \/ \E t \in tasks, up \in BOOLEAN : MarkDone(t, up)
    \/ \E t \in tasks, up \in BOOLEAN : TryGenerateVideoIsPaused(t, up)
    \/ \E t \in tasks, up \in BOOLEAN : TryGenerateVideoGetVoiceover(t, up)
    \/ \E t \in tasks, up \in BOOLEAN : TryGenerateVideoGetImages(t, up)
    \/ \E t \in tasks, up \in BOOLEAN : TryGenerateVideoAcquire(t, up)
    \/ \E t \in tasks, up \in BOOLEAN : TryGenerateFinalVideoIsPaused(t, up)
    \/ \E t \in tasks, up \in BOOLEAN : TryGenerateFinalVideoAcquire(t, up)
    \/ \E p \in Projects, f \in GateFlags : Expire(p, f)
    \/ \E p \in Projects : Duplicate(p)

SpecFaults == Init /\ [][NextFaults]_vars

\* SpecLive: no project is paused, the store is reachable, no gate expires, no
\* redundant delivery; a worker eventually runs every task that is in flight.
NextLive ==
    \/ \E p \in Projects : AddToQueue(p)
    \/ TaskStep

SpecLive == Init /\ [][NextLive]_vars /\ WF_vars(TaskStep)

\* ------------------------------------------------- acquire_once on its own
\* SpecAcquire: C >= 1 callers, each about to call acquire_once on one of two
\* keys that are absent; the store is reachable and no key expires.
CallerKeys == {Key(1, "video_started"), Key(1, "cdn_enqueued")}
IdleCaller == [key |-> <<0, "none">>, pc |-> "idle", result |-> FALSE]
Caller(k) == [key |-> k, pc |-> "call", result |-> FALSE]

InitAcquire ==
    /\ store = [k \in Keys |-> FALSE]
    /\ tasks = {}
    /\ runs = [p \in Projects |-> 0]
    /\ videoSubmits = [p \in Projects |-> 0]
    /\ cdnSubmits = [p \in Projects |-> 0]
    /\ gateLost = {}
    /\ stale = [p \in Projects |-> {}]
    /\ videoOk = [p \in Projects |-> FALSE]
    /\ faults = 0
    /\ callers \in [1..MaxCallers -> {IdleCaller} \cup {Caller(k) : k \in CallerKeys}]
    /\ ExtInit

\* one call of acquire_once(key): the SET NX EX is one atomic command
AcquireCall(c) ==
    /\ callers[c].pc = "call"
    /\ callers' = [callers EXCEPT ![c].pc = "done",
                                  ![c].result = AcquireOnceResult(callers[c].key, TRUE)]
    /\ store' = AcquireOnceStore(callers[c].key, TRUE)
    /\ UNCHANGED <<tasks, runs, hist, faults, ext>>

NextAcquire == \E c \in 1..MaxCallers : AcquireCall(c)

SpecAcquire == InitAcquire /\ [][NextAcquire]_vars

\* ------------------------------------------------ stage logging and restart
\* log_stage: the fields each status writes to the Stage row (created if absent)
LogStage(rec, status) ==
    CASE status = "started" -> [exists |-> TRUE, completed |-> FALSE, error |-> FALSE]
      [] status = "finished" -> [rec EXCEPT !.exists = TRUE, !.completed = TRUE]
      [] status = "failed" -> [exists |-> TRUE, completed |-> FALSE, error |-> TRUE]

\* with_stage_logging, line 48: log_stage(project_id, stage_name, "started")
StageStart(t) ==
    /\ TaskName(t) \in StageTasks
    /\ t.pc = "queued"
    /\ LET stage == StageName(TaskName(t))
       IN /\ stageRec' = Committed(stage, LogStage(Row(stage), "started"))
          /\ failedWork' = failedWork \ {stage}
    /\ tasks' = (tasks \ {t}) \cup {[t EXCEPT !.pc = "running"]}
    /\ UNCHANGED <<store, runs, hist, faults, callers, restarts, plan, scn, asm>>

\* with_stage_logging, lines 51-62: the wrapped function returns (logged
\* "finished") or raises (logged "failed", re-raised); ok is whether the stage's
\* work succeeded
StageEnd(t, ok) ==
    /\ TaskName(t) \in StageTasks
    /\ t.pc = "running"
    /\ LET name == TaskName(t)
           stage == StageName(name)
           raised == Raises(name, ok)
       IN /\ stageRec' = Committed(stage, LogStage(Row(stage),
                                               IF raised THEN "failed" ELSE "finished"))
          /\ failedWork' = IF ok THEN failedWork ELSE failedWork \cup {stage}
          /\ tasks' = (tasks \ {t}) \cup ChainAfter(t, raised)
          /\ videoOk' = IF name = "generate_video" /\ ~raised
                        THEN [videoOk EXCEPT ![t.p] = TRUE] ELSE videoOk
    /\ UNCHANGED <<store, runs, videoSubmits, cdnSubmits, gateLost, stale,
                   faults, callers, restarts, plan, scn, asm>>

\* restart_stage, lines 839-849: task_mapping
TaskMapping(stage) == CHOOSE name \in StageTasks : StageName(name) = stage

\* update_stage(project_id, stage_name, completed=False, error_message=None)
UpdateStage(rec) == [rec EXCEPT !.completed = FALSE, !.error = FALSE]

\* variant: the restarted stage submitted as the first task of the prompts branch
RestartMessagesAsBranch(p, stage) == {Message(p, runs[p], "prompts", 1, restarts + 1)}
\* restart_stage, lines 855-871: task.delay(...) of the one mapped task
RestartMessages(p, stage) == {Message(p, runs[p], TaskMapping(stage), 1, restarts + 1)}

\* restart_stage: 404 without the project or the Stage row; the row is reset;
\* 400 for a name outside task_mapping; else the stage's task is submitted
RestartStage(p, stage) ==
    /\ runs[p] = 1
    /\ Row(stage).exists
    /\ restarts < MaxRestarts
    /\ restarts' = restarts + 1
    /\ stageRec' = Committed(stage, UpdateStage(Row(stage)))
    /\ tasks' = tasks \cup (IF stage \in StageNames THEN RestartMessages(p, stage) ELSE {})
    /\ UNCHANGED <<store, runs, hist, faults, callers, failedWork, plan, scn, asm>>

\* one step of a task of the flow, every stage logged to its Stage row; the
\* store is reachable
FlowStep ==
    \/ \E t \in tasks : VideoPipelineIsPaused(t, TRUE)
    \/ \E t \in tasks : VideoPipelineClear(t, TRUE)
    \/ \E t \in tasks : StageStart(t)
    \/ \E t \in tasks, ok \in BOOLEAN : StageEnd(t, ok)
    \/ \E t \in tasks : StartPostChunksBranches(t)
    \/ \E t \in tasks : MarkDone(t, TRUE)
    \/ \E t \in tasks : TryGenerateVideoIsPaused(t, TRUE)
    \/ \E t \in tasks : TryGenerateVideoGetVoiceover(t, TRUE)
    \/ \E t \in tasks : TryGenerateVideoGetImages(t, TRUE)
    \/ \E t \in tasks : TryGenerateVideoAcquire(t, TRUE)
    \/ \E t \in tasks : TryGenerateFinalVideoIsPaused(t, TRUE)
    \/ \E t \in tasks : TryGenerateFinalVideoAcquire(t, TRUE)

\* SpecChain: one run with every stage logged; no project is paused, nothing is
\* restarted.
NextChain ==
    \/ \E p \in Projects : AddToQueue(p)
    \/ FlowStep

SpecChain == Init /\ [][NextChain]_vars

\* SpecStages: the run of one project from an empty store, with up to
\* MaxRestarts restart_stage requests for it at any time.
RestartProject == CHOOSE p \in Projects : TRUE

InitStages == Init /\ \A k \in Keys : ~store[k]

NextStages ==
    \/ AddToQueue(RestartProject)
    \/ FlowStep
    \/ \E stage \in RequestNames : RestartStage(RestartProject, stage)

SpecStages == InitStages /\ [][NextStages]_vars

\* ------------------------------------------------ SceneDurationAnalyzer
\* get_scene_duration reads the length d of a scene's audio, under settings c
GetSceneDuration(d, c) ==
    /\ ~planned
    /\ sceneDuration = 0
    /\ sceneDuration' = d
    /\ config' = c
    /\ parts' = <<>>
    /\ planned' = FALSE
    /\ UNCHANGED <<store, tasks, runs, hist, faults, callers,
                   stageRec, failedWork, restarts, scn, asm>>

CalculateSceneParts ==
    /\ ~planned
    /\ planned' = TRUE
    /\ parts' = calculate_scene_parts(sceneDuration, config)
    /\ UNCHANGED <<store, tasks, runs, hist, faults, callers,
                   stageRec, failedWork, restarts, sceneDuration, config, scn, asm>>

NextPlan ==
    \/ \E in \in PlanInputs : GetSceneDuration(in[1], in[2])
    \/ CalculateSceneParts

SpecPlan == InitStages /\ [][NextPlan]_vars

\* ----------------------------------------------------------- _find alone
core == <<store, tasks, runs, hist, faults, callers, stageRec, failedWork,
          restarts, plan>>

pipe == <<core, asm>>

run == <<phase, enabled, todo, missing, scanned, ltx_animations, waiter,
         waited, error, chunksVersion, runCount>>

\* another step writes the file p
WriteFile(p) ==
    /\ ~Exists(p)
    /\ Cardinality({f \in Files : Exists(f)}) < MaxFiles
    /\ fs' = Written(p, "good")
    /\ UNCHANGED <<pipe, found, run>>

FindCall(folder, n, extn) ==
    /\ found' = [folder |-> folder, sid |-> Str(n), ext |-> extn,
                 path |-> Find(folder, Str(n), extn)]
    /\ UNCHANGED <<pipe, fs, run>>

NextFind ==
    \/ \E p \in {f \in Files : f.ext # "animated"
                                 /\ IntOf(f.num) \in FindIds} : WriteFile(p)
    \/ \E fe \in Folders, n \in FindIds : FindCall(fe[1], n, fe[2])

SpecFind == InitStages /\ [][NextFind]_vars

\* ------------------------------------------- SceneAnimationManager.run
\* LTX_VIDEO_CONFIG["scene_selection"]["count"], strategy "first_n"
scene_selection_count == 5

\* _wait_for_ltx_animation: seconds slept between checks, and 15 * 60 seconds
check_interval == 3
max_wait_seconds == 900

\* runs of the manager over the same folders
MaxRuns == 2

\* the widths the image and audio steps may have named a scene's file with
InputWidths == {2, 3}

Base(n) == Path("video", Zfill(Str(n), 3), "mp4")
Animated(n) == Path("video", Zfill(Str(n), 3), "animated")

\* path.exists() and st_size > 100_000 and b"ftyp" in the first 12 bytes
\* "good" is a whole clip in the project's format, "raw" a whole clip as the
\* LTX service renders it (1280x720)
mp4_quick_check(p) == p # None /\ Stat(p) \in {"good", "raw"}

Img(n) == Find("scenes", Str(n), "jpg")
Aud(n) == Find("audio", Str(n), "mp3")

\* out = self._find(self.output_dir, sid, "mp4") or scene_{sid.zfill(3)}.mp4
Out(n) ==
    IF Find("video", Str(n), "mp4") # None
    THEN Find("video", Str(n), "mp4") ELSE Base(n)

\* _scan_scenes: (todo, missing)
ScanMissing == {n \in SceneIds : ~(Img(n) # None /\ Aud(n) # None)}

ScanTodoBlocked ==
    IF ScanMissing # {} THEN {}
    ELSE {n \in SceneIds : ~mp4_quick_check(Out(n))}

ScanTodoAll == SceneIds \ ScanMissing

ScanTodo == {n \in SceneIds \ ScanMissing : ~mp4_quick_check(Out(n))}

\* _all_done
AllDone ==
    \A n \in SceneIds : mp4_quick_check(Find("video", Str(n), "mp4"))

\* the scenes _start_ltx_animations_in_background selects (first_n)
SelectedScenes == {n \in SceneIds : n <= scene_selection_count}

\* the image or audio step writes a scene's file
WriteInput(fe, n, z) ==
    /\ Find(fe[1], Str(n), fe[2]) = None
    /\ fs' = Written(Path(fe[1], Zfill(Str(n), z), fe[2]), "good")
    /\ UNCHANGED <<pipe, found, run>>

\* the output folder holds a clip that an interrupted writer left too short
LeaveClip(n) ==
    /\ phase = "new"
    /\ runCount = 0
    /\ Stat(Base(n)) = "none"
    /\ fs' = Written(Base(n), "small")
    /\ UNCHANGED <<pipe, found, run>>

\* run(): _validate_ltx_connectivity, which raises when the service is
\* unreachable
Validate(en, reachable) ==
    /\ phase = "new"
    /\ enabled' = en
    /\ runCount' = runCount + 1
    /\ IF en /\ ~reachable
       THEN phase' = "failed" /\ error' = {"validation"}
       ELSE phase' = "launch" /\ error' = {}
    /\ UNCHANGED <<pipe, fs, found, todo, missing, scanned, ltx_animations,
                   waiter, waited, chunksVersion>>

\* run(): _start_ltx_animations_in_background when enabled, before the loop
StartLtx ==
    /\ phase = "launch"
    /\ phase' = "scan"
    /\ IF enabled /\ SelectedScenes # {}
       THEN /\ ltx_animations' = SelectedScenes
            /\ waiter' = [n \in SelectedScenes |-> "waiting"]
       ELSE UNCHANGED <<ltx_animations, waiter>>
    /\ UNCHANGED <<pipe, fs, found, enabled, todo, missing, scanned, waited,
                   error, chunksVersion, runCount>>

\* one pass of the loop of run(): _scan_scenes, then _all_done or sleep when
\* nothing is to render
Scan ==
    /\ phase = "scan"
    /\ scanned' = TRUE
    /\ todo' = ScanTodo
    /\ missing' = ScanMissing
    /\ phase' = IF ScanTodo # {} THEN "render"
                ELSE IF AllDone THEN (IF enabled THEN "wait" ELSE "concat")
                ELSE "scan"
    /\ UNCHANGED <<pipe, fs, found, enabled, ltx_animations, waiter, waited,
                   error, chunksVersion, runCount>>

\* _animate_parallel: one scene of todo rendered by generate_zoom_video; the
\* cycle ends when all are
RenderScene(n) ==
    /\ phase = "render"
    /\ n \in todo
    /\ fs' = Written(Out(n), "good")
    /\ todo' = todo \ {n}
    /\ phase' = IF todo' = {} THEN "scan" ELSE "render"
    /\ UNCHANGED <<pipe, found, enabled, missing, scanned, ltx_animations,
                   waiter, waited, error, chunksVersion, runCount>>

\* where the waiter of scene n is, "off" when none was launched
WaiterOf(n) == IF n \in DOMAIN waiter THEN waiter[n] ELSE "off"

\* wait_and_animate: the loop that waits for the base clip
WaiterReadyAny(n) == WaiterOf(n) = "waiting"

WaiterReady(n) == WaiterOf(n) = "waiting" /\ mp4_quick_check(Base(n))

WaitAndAnimate(n) ==
    /\ WaiterReady(n)
    /\ waiter' = [waiter EXCEPT ![n] = "animating"]
    /\ UNCHANGED <<pipe, fs, found, phase, enabled, todo, missing, scanned,
                   ltx_animations, waited, error, chunksVersion, runCount>>

\* manager.animate_scene(sn) returns or raises: the animated clip is written
\* whole ("good"), in part ("small") or not at all ("none")
AnimateScene(n, clip) ==
    /\ WaiterOf(n) = "animating"
    /\ waiter' = [waiter EXCEPT ![n] = "done"]
    /\ fs' = IF clip = "none" THEN fs ELSE Written(Animated(n), clip)
    /\ UNCHANGED <<pipe, found, phase, enabled, todo, missing, scanned,
                   ltx_animations, waited, error, chunksVersion, runCount>>

\* _wait_for_ltx_animation: one check of the animated clips
CompletedScenesNone == ltx_animations

CompletedScenes == {n \in ltx_animations : mp4_quick_check(Animated(n))}

WaitForLtx ==
    /\ phase = "wait"
    /\ IF ltx_animations = {} \/ CompletedScenes = ltx_animations
       THEN phase' = "concat" /\ UNCHANGED <<waited, error>>
       ELSE /\ waited' = waited + check_interval
            /\ IF waited' >= max_wait_seconds
               THEN phase' = "failed" /\ error' = {"RUNPOD_LTX_ID", "base_url"}
               ELSE phase' = "wait" /\ error' = error
    /\ UNCHANGED <<pipe, fs, found, enabled, todo, missing, scanned,
                   ltx_animations, waiter, chunksVersion, runCount>>

\* _concat: the final video is assembled and the chunk timings rewritten
Concat ==
    /\ phase = "concat"
    /\ phase' = "done"
    /\ chunksVersion' = chunksVersion + 1
    /\ UNCHANGED <<pipe, fs, found, enabled, todo, missing, scanned,
                   ltx_animations, waiter, waited, error, runCount>>

\* generate_video is run again for the project: a new manager, the same folders
Restart ==
    /\ phase \in {"done", "failed"}
    /\ runCount < MaxRuns
    /\ phase' = "new"
    /\ enabled' = FALSE
    /\ todo' = {}
    /\ missing' = {}
    /\ scanned' = FALSE
    /\ ltx_animations' = {}
    /\ waiter' = [n \in {} |-> "off"]
    /\ waited' = 0
    /\ error' = {}
    /\ UNCHANGED <<pipe, fs, found, chunksVersion, runCount>>

ManagerStep ==
    \/ \E en \in BOOLEAN, reachable \in BOOLEAN : Validate(en, reachable)
    \/ StartLtx
    \/ Scan
    \/ \E n \in SceneIds : RenderScene(n)
    \/ WaitForLtx
    \/ Concat

NextScenes ==
    \/ \E fe \in {<<"scenes", "jpg">>, <<"audio", "mp3">>},
          n \in SceneIds, z \in InputWidths : WriteInput(fe, n, z)
    \/ \E n \in SceneIds : LeaveClip(n)
    \/ ManagerStep
    \/ \E n \in SceneIds : WaitAndAnimate(n)
    \/ \E n \in SceneIds, clip \in {"good", "small", "none"} : AnimateScene(n, clip)
    \/ Restart

SpecScenes == InitStages /\ [][NextScenes]_vars

\* the thread of run() keeps running
SpecScenesLive == SpecScenes /\ WF_vars(ManagerStep)

\* ------------------------------------------- LTXVideoManager.animate_scene
\* the audio lengths a scene may have (tenths of a second)
AudioLengths == {30, 60}

\* part.output_path: scene_{NNN}_part_{part_index:02d}_animated.mp4
PartExts == <<"part_00_animated", "part_01_animated">>
PartFile(n, i) == Path("video", Zfill(Str(n), 3), PartExts[i + 1])

\* the folders after the files of S were unlinked or renamed away
Removed(S) == [q \in (DOMAIN fs) \ S |-> fs[q]]

\* find_scene_files: the image by zfill(2), zfill(3), bare; then the base clip
\* by the image's width and the other of the widths 2 and 3
LtxImage(n) == FindFrom("scenes", Str(n), "jpg", <<2, 3, 1>>)

LtxVideoExists(n) ==
    LET img == LtxImage(n)
        cands == IF img = None THEN {Zfill(Str(n), 3), Zfill(Str(n), 2)}
                 ELSE IF Len(img.num) = 2 THEN {img.num, Zfill(Str(n), 3)}
                 ELSE IF Len(img.num) = 3 THEN {img.num, Zfill(Str(n), 2)}
                 ELSE {img.num}
    IN  \E num \in cands : Exists(Path("video", num, "mp4"))

\* SceneDurationAnalyzer.get_scene_duration: 0.0 when no audio file is found
SceneLength(n, d) ==
    IF FindFrom("audio", Str(n), "mp3", <<2, 3, 1>>) = None THEN 0 ELSE d

\* where the job of scene n is: "off" when animate_scene was not called
JobPc(n) == IF n \in DOMAIN job THEN job[n].pc ELSE "off"

JobSet(n, rec) == [m \in (DOMAIN job) \cup {n} |-> IF m = n THEN rec ELSE job[m]]

NewJob(total, pc, result) ==
    [total |-> total, idx |-> 0, animated |-> {}, pc |-> pc, merge |-> FALSE,
     result |-> result, failed |-> {}]

\* wait_and_animate returns: the future of scene n is done
EndedAll(n) == [m \in DOMAIN waiter |-> "done"]

Ended(n) == IF n \in DOMAIN waiter THEN [waiter EXCEPT ![n] = "done"] ELSE waiter

run0 == <<phase, enabled, todo, missing, scanned, ltx_animations, waited,
          error, chunksVersion, runCount>>

rest == <<environ, probe, file_list, final_video, exits, chunkTime, late>>

\* animate_scene up to the list of parts: False when the image, the base clip
\* or the parts are missing
CreateSceneParts(n, d) ==
    /\ WaiterOf(n) = "animating"
    /\ JobPc(n) \in {"off", "done"}
    /\ LET ps == calculate_scene_parts(SceneLength(n, d), LTX_VIDEO_CONFIG)
           ok == LtxImage(n) # None /\ LtxVideoExists(n) /\ ps # <<>>
       IN  /\ job' = JobSet(n, IF ok THEN NewJob(Len(ps), "parts", "none")
                                ELSE NewJob(0, "done", "False"))
           /\ waiter' = IF ok THEN waiter ELSE Ended(n)
    /\ UNCHANGED <<core, rest, fs, found, run0>>

\* animate_scene_part of the next part: submit_video_request, the polling loop
\* with its 10 minute ceiling, download_video
PartOutcomes == {"ok", "submit", "FAILURE", "timeout", "download"}

AnimateScenePart(n, outcome) ==
    /\ JobPc(n) = "parts"
    /\ LET j == job[n]
           ok == outcome = "ok"
       IN  /\ fs' = IF ok THEN Written(PartFile(n, j.idx), "raw") ELSE fs
           /\ job' = [job EXCEPT ![n] =
                        [j EXCEPT !.idx = j.idx + 1,
                                  !.animated = IF ok THEN @ \cup {j.idx} ELSE @,
                                  !.pc = IF j.idx + 1 = j.total THEN "merge"
                                         ELSE "parts"]]
    /\ UNCHANGED <<core, rest, found, run0, waiter>>

\* animate_scene after the loop over the parts: merge_scene_parts is called
\* when every part was animated
MergeWantedAny(j) == j.animated # {}

MergeWanted(j) == Cardinality(j.animated) = j.total

\* merge_scene_parts up to the final clip: one part is renamed, several are
\* joined by ffmpeg, whose exit code is exit
MergeSceneParts(n, exit) ==
    /\ JobPc(n) = "merge"
    /\ LET j == job[n]
           final_output == Animated(n)
       IN  IF ~MergeWanted(j)
           THEN /\ job' = [job EXCEPT ![n] = [j EXCEPT !.pc = "done", !.result = "False"]]
                /\ waiter' = Ended(n)
                /\ fs' = fs
           ELSE IF j.total = 1
           THEN /\ job' = [job EXCEPT ![n] = [j EXCEPT !.pc = "mux", !.merge = TRUE]]
                /\ fs' = [q \in ((DOMAIN fs) \ {PartFile(n, 0)}) \cup {final_output} |->
                            IF q = final_output THEN Stat(PartFile(n, 0)) ELSE fs[q]]
                /\ waiter' = waiter
           ELSE IF exit = 0
           THEN /\ job' = [job EXCEPT ![n] = [j EXCEPT !.pc = "unlink", !.merge = TRUE]]
                /\ fs' = Written(final_output, "raw")
                /\ waiter' = waiter
           ELSE /\ job' = [job EXCEPT ![n] =
                             [j EXCEPT !.pc = "done", !.merge = TRUE,
                                       !.result = "False", !.failed = @ \cup {"concat"}]]
                /\ waiter' = Ended(n)
                /\ fs' = fs
    /\ UNCHANGED <<core, rest, found, run0>>

\* merge_scene_parts: the part files are unlinked after the join
UnlinkParts(n) ==
    /\ JobPc(n) = "unlink"
    /\ fs' = Removed({PartFile(n, i) : i \in 0..(job[n].total - 1)})
    /\ job' = [job EXCEPT ![n].pc = "mux"]
    /\ UNCHANGED <<core, rest, found, run0, waiter>>

\* merge_scene_parts: _mux_audio_into_video, then normalize_video_to_target;
\* a failure of either is printed and True is returned
MuxAndNormalize(n, muxExit, normExit) ==
    /\ JobPc(n) = "mux"
    /\ fs' = IF normExit = 0 THEN Written(Animated(n), "good") ELSE fs
    /\ job' = [job EXCEPT ![n] =
                 [@ EXCEPT !.pc = "done", !.result = "True",
                           !.failed = @ \cup (IF muxExit = 0 THEN {} ELSE {"mux"})
                                        \cup (IF normExit = 0 THEN {} ELSE {"normalize"})]]
    /\ waiter' = Ended(n)
    /\ UNCHANGED <<core, rest, found, run0>>

JobStep(n) ==
    \/ \E d \in AudioLengths : CreateSceneParts(n, d)
    \/ \E outcome \in PartOutcomes : AnimateScenePart(n, outcome)
    \/ \E exit \in {0, 1} : MergeSceneParts(n, exit)
    \/ UnlinkParts(n)
    \/ \E muxExit \in {0, 1}, normExit \in {0, 1} : MuxAndNormalize(n, muxExit, normExit)

\* -------------------------------------- LTXVideoManager.animate_scene_part
\* LTX_VIDEO_CONFIG["polling_interval"] and the ceiling of the polling loop,
\* in seconds
polling_interval == 35
max_wait_time == 600

\* the intervals the loop is run with: the configured one and one that
\* divides the ceiling
PollingIntervals == {polling_interval, 40}

\* what check_status returns: the status of the reply, "UNKNOWN" when the
\* reply names none, "ERROR" when the request failed
Statuses == {"PENDING", "SUCCESS", "FAILURE", "UNKNOWN", "ERROR"}

\* the call of animate_scene_part in progress or returned
NoPart == [pc |-> "off", interval |-> 0, elapsed |-> 0, polls |-> 0,
           status |-> "none", ref |-> FALSE, downloaded |-> FALSE,
           result |-> "none"]

Part == IF partCall = <<>> THEN NoPart ELSE partCall[1]

\* ceil(a / b)
CeilDiv(a, b) == (a + b - 1) \div b

\* while elapsed < max_wait_time
LoopContinuesInclusive(p) == p.elapsed <= max_wait_time

LoopContinues(p) == p.elapsed < max_wait_time

\* submit_video_request: a task id, or None when the request failed
SubmitVideoRequest(pi, task_id) ==
    /\ Part.pc \in {"off", "done"}
    /\ partCall' = <<[NoPart EXCEPT !.interval = pi,
                                !.pc = IF task_id THEN "poll" ELSE "done",
                                !.result = IF task_id THEN "none" ELSE "False"]>>
    /\ UNCHANGED <<core, scn, job, environ, probe, file_list, final_video,
                   exits, chunkTime, stopped, sel, loop, lookups>>

\* one pass of the loop: sleep, check_status, and download_video on SUCCESS
\* with a result; ref says whether the reply carries a result, dl whether
\* the download succeeds
CheckStatus(status, ref, dl) ==
    /\ Part.pc = "poll"
    /\ LoopContinues(Part)
    /\ LET p == Part
           result_path == status = "SUCCESS" /\ ref
           q == [p EXCEPT !.elapsed = p.elapsed + p.interval,
                          !.polls = p.polls + 1,
                          !.status = status,
                          !.ref = result_path]
       IN  partCall' = <<IF result_path
                     THEN [q EXCEPT !.pc = "done", !.downloaded = dl,
                                    !.result = IF dl THEN "True" ELSE "False"]
                     ELSE IF status = "FAILURE"
                     THEN [q EXCEPT !.pc = "done", !.result = "False"]
                     ELSE q>>
    /\ UNCHANGED <<core, scn, job, environ, probe, file_list, final_video,
                   exits, chunkTime, stopped, sel, loop, lookups>>

\* the loop ends at the ceiling: False
PartTimeout ==
    /\ Part.pc = "poll"
    /\ ~LoopContinues(Part)
    /\ partCall' = <<[Part EXCEPT !.pc = "done", !.result = "False"]>>
    /\ UNCHANGED <<core, scn, job, environ, probe, file_list, final_video,
                   exits, chunkTime, stopped, sel, loop, lookups>>

PartStep ==
    \/ \E status \in Statuses, ref \in BOOLEAN, dl \in BOOLEAN :
          CheckStatus(status, ref, dl)
    \/ PartTimeout

NextPart ==
    \/ \E pi \in PollingIntervals, task_id \in BOOLEAN :
          SubmitVideoRequest(pi, task_id)
    \/ PartStep

SpecPart == InitStages /\ [][NextPart]_vars

\* ------------------------------------------- _validate_ltx_connectivity
\* values of RUNPOD_LTX_ID, as sequences of characters
Unknown == <<"u", "n", "k", "n", "o", "w", "n">>

EnvValues ==
    {NoVar, <<>>, <<" ">>, Unknown, <<" ">> \o Unknown, <<"a", "b">>,
     <<"a", "b", " ">>}

\* os.environ.get("RUNPOD_LTX_ID", "")
EnvGet == IF environ = NoVar THEN <<>> ELSE environ

\* s.strip()
RECURSIVE Strip(_)
Strip(s) ==
    IF s = <<>> THEN s
    ELSE IF Head(s) = " " THEN Strip(Tail(s))
    ELSE IF s[Len(s)] = " " THEN Strip(SubSeq(s, 1, Len(s) - 1))
    ELSE s

\* if not runpod_id or runpod_id == "unknown": raise
ValidIdAny(runpod_id) == runpod_id # <<>>

ValidId(runpod_id) == runpod_id # <<>> /\ runpod_id # Unknown

\* what a probe request ends with: a status code, or 0 when requests raised
NetworkError == 0
Responses == {NetworkError, 200, 401, 404, 503}

allowed_status == {200, 201, 202, 203, 204, 301, 302, 303, 307, 308, 403, 404, 405}

AllowedNot5xx(r) == r # NetworkError /\ ~(500 <= r /\ r <= 599)

Allowed(r) == r \in allowed_status

\* the deployment sets or clears RUNPOD_LTX_ID before a run
SetEnv(v) ==
    /\ phase = "new"
    /\ environ # v
    /\ environ' = v
    /\ UNCHANGED <<core, scn, job, probe, file_list, final_video, exits, chunkTime,
                   late>>

\* run() up to the background launch: _validate_ltx_connectivity when LTX is
\* enabled; g answers GET base_url/ and o answers OPTIONS base_url/generate
ValidateLtxConnectivity(en, g, o) ==
    /\ phase = "new"
    /\ enabled' = en
    /\ runCount' = runCount + 1
    /\ IF ~en
       THEN phase' = "launch" /\ error' = {} /\ probe' = <<>>
       ELSE IF ~ValidId(Strip(EnvGet))
       THEN phase' = "failed" /\ error' = {"RUNPOD_LTX_ID"} /\ probe' = <<>>
       ELSE IF Allowed(g)
       THEN phase' = "launch" /\ error' = {} /\ probe' = <<g>>
       ELSE IF Allowed(o)
       THEN phase' = "launch" /\ error' = {} /\ probe' = <<g, o>>
       ELSE phase' = "failed" /\ error' = {"unreachable"} /\ probe' = <<g, o>>
    /\ UNCHANGED <<core, job, environ, file_list, final_video, exits, chunkTime,
                   late, fs, found, todo, missing, scanned, ltx_animations, waiter,
                   waited, chunksVersion>>

NextValidate ==
    \/ \E v \in EnvValues : SetEnv(v)
    \/ \E fe \in {<<"scenes", "jpg">>, <<"audio", "mp3">>}, n \in SceneIds :
          WriteInput(fe, n, 3)
    \/ \E en \in BOOLEAN, g \in Responses, o \in Responses :
          ValidateLtxConnectivity(en, g, o)
    \/ StartLtx
    \/ Scan
    \/ \E n \in SceneIds : RenderScene(n)
    \/ Restart

SpecValidate == InitStages /\ [][NextValidate]_vars

\* ----------------------------------------------- run_ltx_animation's pool
\* the chunk ids of a project of which first_n selects two scenes
PoolIds == {1, 2}

\* the image, audio and base-render steps seen from the pool: scene n's files
\* appear
RenderBase(n) ==
    /\ ~Exists(Base(n))
    /\ Img(n) # None /\ Aud(n) # None
    /\ fs' = Written(Base(n), "good")
    /\ UNCHANGED <<pipe, found, run>>

\* run_ltx_animation: wait_and_animate is submitted for every selected scene
RunLtxAnimation ==
    /\ phase = "new"
    /\ DOMAIN waiter = {}
    /\ ltx_animations' = {n \in PoolIds : n <= scene_selection_count}
    /\ waiter' = [n \in ltx_animations' |-> "waiting"]
    /\ UNCHANGED <<pipe, fs, found, phase, enabled, todo, missing, scanned,
                   waited, error, chunksVersion, runCount>>

NextLtx ==
    \/ \E fe \in {<<"scenes", "jpg">>, <<"audio", "mp3">>}, n \in PoolIds :
          WriteInput(fe, n, 3)
    \/ \E n \in PoolIds : RenderBase(n)
    \/ RunLtxAnimation
    \/ \E n \in PoolIds : WaitAndAnimate(n)
    \/ \E n \in PoolIds : JobStep(n)

SpecLtx == InitStages /\ [][NextLtx]_vars

\* ----------------------------------------------------------------- _concat
\* the files of the output folder
VideoDir == {f \in DOMAIN fs : f.folder = "video"}

\* glob("scene_*_animated.mp4")
IsAnimatedName(f) ==
    f.ext = "animated" \/ \E i \in 1..Len(PartExts) : PartExts[i] = f.ext

\* int(clip.stem.split("_")[-2]): the digits before "_animated"
AnimatedSid(f) ==
    IF f.ext = "animated" THEN IntOf(f.num)
    ELSE (CHOOSE i \in 1..Len(PartExts) : PartExts[i] = f.ext) - 1

\* glob("scene_*.mp4") without the names that hold "_animated", "_part_" or
\* ".normalized"; int(name.replace("scene_", ""))
IsBaseName(f) == f.ext = "mp4"

AnimatedOf(sid) == {f \in VideoDir : IsAnimatedName(f) /\ AnimatedSid(f) = sid}
BaseOf(sid) == {f \in VideoDir : IsBaseName(f) /\ IntOf(f.num) = sid}

ClipIds ==
    {AnimatedSid(f) : f \in {g \in VideoDir : IsAnimatedName(g)}}
      \cup {IntOf(f.num) : f \in {g \in VideoDir : IsBaseName(g)}}

\* id_to_clip: an animated name wins over a base name; among several files of
\* one id the order of the glob decides
ClipsOf(sid) == IF AnimatedOf(sid) # {} THEN AnimatedOf(sid) ELSE BaseOf(sid)

RECURSIVE IdToClipOver(_)
IdToClipOver(ids) ==
    IF ids = {} THEN {[x \in {} |-> None]}
    ELSE LET sid == CHOOSE x \in ids : TRUE
         IN  {[x \in (DOMAIN m) \cup {sid} |-> IF x = sid THEN c ELSE m[x]] :
                m \in IdToClipOver(ids \ {sid}), c \in ClipsOf(sid)}

IdToClipChoices == IdToClipOver(ClipIds)

\* temp_normalized / f"normalized_{sid:03d}.mp4"
NormalizedFile(sid) == Path("temp_normalized", Zfill(Str(sid), 3), "mp4")

\* the normalization loop for one clip: an animated clip that ffprobe finds off
\* the target is re-encoded; a failure of ffprobe or ffmpeg is printed
NeedsNormalize(clip) == clip.ext # "mp4" /\ Stat(clip) = "raw"

Override(sid, clip, bad) == NeedsNormalize(clip) /\ sid \notin bad

Entry(sid, clip, bad) ==
    IF Override(sid, clip, bad)
    THEN [sid |-> sid, clip |-> NormalizedFile(sid), of |-> clip,
          content |-> "good", animated |-> TRUE]
    ELSE [sid |-> sid, clip |-> clip, of |-> clip, content |-> Stat(clip),
          animated |-> clip.ext # "mp4"]

\* sorted(id_to_clip.keys())
RECURSIVE Sorted(_)
Sorted(S) ==
    IF S = {} THEN <<>>
    ELSE LET lo == CHOOSE x \in S : \A y \in S : x <= y
         IN  <<lo>> \o Sorted(S \ {lo})

FileList(m, bad) ==
    LET ids == Sorted(DOMAIN m)
    IN  [i \in 1..Len(ids) |-> Entry(ids[i], m[ids[i]], bad)]

\* ffprobe_duration in milliseconds: a scene's clip, re-encoded or not, has the
\* length of the scene, a part file the length of a part; 0.0 when ffprobe fails
ScenePartMs == 4000

ffprobe_duration(en) ==
    IF en.content = "small" THEN 0
    ELSE IF en.of.ext \in {"mp4", "animated"} THEN 1000 * (IntOf(en.of.num) + 5)
    ELSE ScenePartMs

\* _fmt: hours, minutes, seconds, milliseconds
Fmt(ms) ==
    <<ms \div 3600000, (ms % 3600000) \div 60000, (ms % 60000) \div 1000,
      ms % 1000>>

\* durs: the clips of the list that pass mp4_quick_check, with their lengths
Durs(list) == SelectSeq(list, LAMBDA en : en.content \in {"good", "raw"})

RECURSIVE SumMs(_, _)
SumMs(durs, k) == IF k = 0 THEN 0 ELSE SumMs(durs, k - 1) + ffprobe_duration(durs[k])

\* the rewrite of the time fields: cur runs over every entry of durs, a chunk
\* gets a field when its id is the entry's
Times(list, chunks) ==
    LET durs == Durs(list)
        hit == {k \in 1..Len(durs) : durs[k].sid \in chunks}
        at(n) == CHOOSE k \in hit : durs[k].sid = n
    IN  [n \in (DOMAIN chunkTime) \cup {durs[k].sid : k \in hit} |->
           IF \E k \in hit : durs[k].sid = n
           THEN <<Fmt(SumMs(durs, at(n) - 1)), Fmt(SumMs(durs, at(n)))>>
           ELSE chunkTime[n]]

\* _all_done and the end of _wait_for_ltx_animation for the chunk list chunks
ReadyToConcat(chunks) ==
    /\ \A n \in chunks : mp4_quick_check(Find("video", Str(n), "mp4"))
    /\ \A n \in ltx_animations : mp4_quick_check(Animated(n))

\* _concat for the chunk list chunks: m is id_to_clip, bad the clips whose
\* normalization ffmpeg fails, exit the exit code of the final ffmpeg
ConcatFiles(chunks, m, bad, exit) ==
    LET list == FileList(m, bad)
        failed == {"ffprobe" : sid \in {x \in DOMAIN m :
                                   m[x].ext # "mp4" /\ Stat(m[x]) = "small"}}
                    \cup {"normalize" : sid \in {x \in DOMAIN m :
                                   NeedsNormalize(m[x]) /\ x \in bad}}
    IN  /\ file_list' = list
        /\ IF exit = 0
           THEN /\ final_video' = "made"
                /\ exits' = failed
                /\ chunkTime' = Times(list, chunks)
                /\ chunksVersion' = chunksVersion + 1
                /\ phase' = "done"
                /\ error' = {}
           ELSE /\ exits' = failed \cup {"concat"}
                /\ phase' = "failed"
                /\ error' = {"ffmpeg"}
                /\ UNCHANGED <<final_video, chunkTime, chunksVersion>>

\* run() of a project whose chunk list is PoolIds, from the end of its loop:
\* _wait_for_ltx_animation returns and _concat runs
WaitAndConcat ==
    /\ phase = "new"
    /\ ReadyToConcat(PoolIds)
    /\ \E m \in IdToClipChoices :
          \E bad \in SUBSET {sid \in DOMAIN m : NeedsNormalize(m[sid])},
             exit \in {0, 1} :
             ConcatFiles(PoolIds, m, bad, exit)
    /\ UNCHANGED <<core, job, environ, probe, late, fs, found, enabled, todo,
                   missing, scanned, ltx_animations, waiter, waited, runCount>>

\* _wait_for_ltx_animation gives up after max_wait_seconds
WaitTimesOut ==
    /\ phase = "new"
    /\ \A n \in PoolIds : mp4_quick_check(Find("video", Str(n), "mp4"))
    /\ \E n \in ltx_animations : ~mp4_quick_check(Animated(n))
    /\ phase' = "failed"
    /\ error' = {"RUNPOD_LTX_ID", "base_url"}
    /\ UNCHANGED <<pipe, fs, found, enabled, todo, missing, scanned,
                   ltx_animations, waiter, waited, chunksVersion, runCount>>

\* runs of generate_video that follow a run that timed out
MaxReruns == 1

\* generate_video is run again after a run that timed out in the wait, when
\* the jobs of that run have ended: a new manager and a new pool over the same
\* folders
Rerun ==
    /\ phase = "failed"
    /\ error = {"RUNPOD_LTX_ID", "base_url"}
    /\ runCount < MaxReruns
    /\ \A n \in DOMAIN job : job[n].pc = "done"
    /\ \A n \in DOMAIN waiter : waiter[n] = "done"
    /\ phase' = "new"
    /\ runCount' = runCount + 1
    /\ ltx_animations' = {}
    /\ waiter' = [n \in {} |-> "off"]
    /\ job' = [n \in {} |-> 0]
    /\ error' = {}
    /\ UNCHANGED <<core, rest, fs, found, enabled, todo, missing, scanned,
                   waited, chunksVersion>>

NextAssembly ==
    \/ \E fe \in {<<"scenes", "jpg">>, <<"audio", "mp3">>}, n \in PoolIds :
          WriteInput(fe, n, 3)
    \/ \E n \in PoolIds : RenderBase(n)
    \/ RunLtxAnimation
    \/ \E n \in PoolIds : WaitAndAnimate(n)
    \/ \E n \in PoolIds : JobStep(n)
    \/ WaitAndConcat
    \/ WaitTimesOut
    \/ Rerun

SpecAssembly == InitStages /\ [][NextAssembly]_vars

\* every worker of the pool keeps running: the pool has max_workers = 4 threads
\* and at most as many futures
SpecLtxLive ==
    /\ SpecLtx
    /\ \A n \in PoolIds : WF_vars(WaitAndAnimate(n)) /\ WF_vars(JobStep(n))

\* ================================================================== claims
\* ------------------------------------------------------- scene selection
\* LTX_VIDEO_CONFIG["scene_selection"]["max_scenes_for_shorts"]
max_scenes_for_shorts == 3

\* the chunk lists have ids 1..N, N up to MaxChunks
MaxChunks == 6

\* settings of LTX_VIDEO_CONFIG["scene_selection"], as configured and as
\* set_first_n_scenes, set_every_nth_scene and set_custom_scenes set them;
\* custom lists hold scene numbers
SelectionConfigs ==
    {[strategy |-> "first_n", count |-> c, step |-> 2, custom_scenes |-> {1, 2, 5, 8}]
        : c \in 0..(MaxChunks + 1)}
    \cup {[strategy |-> "every_nth", count |-> scene_selection_count, step |-> st,
           custom_scenes |-> {1, 2, 5, 8}] : st \in 1..3}
    \cup {[strategy |-> "custom_list", count |-> scene_selection_count, step |-> 2,
           custom_scenes |-> cs] : cs \in {{1, 2, 5, 8}, {}, {2}, {3, 9}, {4, 6}}}
    \cup {[strategy |-> "none", count |-> scene_selection_count, step |-> 2,
           custom_scenes |-> {1, 2, 5, 8}]}

\* _start_ltx_animations_in_background: should_animate of one scene id
ShouldAnimateNoCap(cfg, fmt, scene_num) ==
    CASE cfg.strategy = "first_n" -> scene_num <= cfg.count
      [] cfg.strategy = "every_nth" -> scene_num % cfg.step = 0
      [] cfg.strategy = "custom_list" -> scene_num \in cfg.custom_scenes
      [] OTHER -> FALSE

ShouldAnimate(cfg, fmt, scene_num) ==
    CASE cfg.strategy = "first_n" ->
            scene_num <= (IF fmt = "shorts"
                          THEN MinOf(cfg.count, max_scenes_for_shorts)
                          ELSE cfg.count)
      [] cfg.strategy = "every_nth" -> scene_num % cfg.step = 0
      [] cfg.strategy = "custom_list" -> scene_num \in cfg.custom_scenes
      [] OTHER -> FALSE

\* scenes_to_animate of the manager, over the ids of the chunk list
ScenesToAnimate(cfg, fmt, ids) == {n \in ids : ShouldAnimate(cfg, fmt, n)}

\* SceneSelector.get_scenes_to_animate, as the set of the list it returns
GetScenesToAnimate(cfg, fmt, total_scenes) ==
    CASE cfg.strategy = "first_n" ->
            1..(IF fmt = "shorts"
                THEN MinOf(MinOf(cfg.count, max_scenes_for_shorts), total_scenes)
                ELSE MinOf(cfg.count, total_scenes))
      [] cfg.strategy = "every_nth" ->
            {i \in 1..total_scenes : i % cfg.step = 0}
      [] cfg.strategy = "custom_list" ->
            {x \in cfg.custom_scenes : x <= total_scenes}
      [] OTHER -> {}

Sel == sel[1]

rows == <<store, tasks, runs, hist, faults, callers, stageRec, failedWork,
          restarts, plan, scn, job, environ, probe, file_list, final_video,
          exits, chunkTime, partCall, stopped, loop, lookups>>

\* a run over a chunk list of total chunks: the launch selects the scenes and
\* LTXVideoManager is built in the background thread
StartLtxAnimations(cfg, fmt, total) ==
    /\ sel = <<>>
    /\ sel' = <<[cfg |-> cfg, fmt |-> fmt, total |-> total,
                 ltx_animations |-> ScenesToAnimate(cfg, fmt, 1..total),
                 scenes_to_animate |-> GetScenesToAnimate(cfg, fmt, total),
                 checked |-> {}, rejected |-> {}]>>
    /\ UNCHANGED rows

\* animate_scene(sn) of a launched scene up to should_animate_scene
ShouldAnimateScene(sn) ==
    /\ sel # <<>>
    /\ sn \in Sel.ltx_animations \ Sel.checked
    /\ sel' = <<[Sel EXCEPT !.checked = @ \cup {sn},
                            !.rejected = IF sn \in Sel.scenes_to_animate
                                         THEN @ ELSE @ \cup {sn}]>>
    /\ UNCHANGED rows

NextSelect ==
    \/ \E cfg \in SelectionConfigs, fmt \in {"long", "shorts"}, total \in 0..MaxChunks :
          StartLtxAnimations(cfg, fmt, total)
    \/ \E sn \in 1..MaxChunks : ShouldAnimateScene(sn)

SpecSelect == InitStages /\ [][NextSelect]_vars

\* -------------------------------------- calculate_scene_parts, pass by pass
\* passes of the while loop that are followed; a call that returns makes at
\* most one pass per tenth of a second of the scene
MaxParts == 25

NoLoop == [pc |-> "off", total |-> 0, c |-> [T |-> 0, M |-> 0, O |-> 0],
           current_start |-> 0, n |-> 0]

Loop == IF loop = <<>> THEN NoLoop ELSE loop[1]

others == <<store, tasks, runs, hist, faults, callers, stageRec, failedWork,
            restarts, plan, scn, job, environ, probe, file_list, final_video,
            exits, chunkTime, partCall, stopped, sel, lookups>>

\* calculate_scene_parts up to the loop, for a scene of length d under the
\* settings c
EnterLoop(d, c) ==
    /\ loop = <<>>
    /\ loop' = <<[NoLoop EXCEPT !.total = d, !.c = c,
                                !.pc = IF d <= 0 \/ d <= c.M THEN "returned"
                                       ELSE "loop",
                                !.n = IF d <= 0 THEN 0 ELSE IF d <= c.M THEN 1 ELSE 0]>>
    /\ UNCHANGED others

\* one pass of the while loop: a part is appended, then break, or the next
\* start and the loop condition
LoopPass ==
    /\ Loop.pc = "loop"
    /\ Loop.n < MaxParts
    /\ LET l == Loop
           p == PartAt(l.total, l.c.T, l.current_start)
           next == NextStart(p, l.c.O)
       IN  loop' = <<IF p[1] + p[2] >= l.total
                     THEN [l EXCEPT !.n = l.n + 1, !.pc = "returned"]
                     ELSE [l EXCEPT !.n = l.n + 1, !.current_start = next,
                                    !.pc = IF next < l.total THEN "loop"
                                           ELSE "returned"]>>
    /\ UNCHANGED others

\* positive D, T and M, overlap 0 or more
LoopInputs ==
    {<<d, LTX_VIDEO_CONFIG>> : d \in 1..MaxDuration}
      \cup {<<d, c>> : d \in 1..(5 * MaxTarget), c \in Configs}

NextLoop ==
    \/ \E in \in LoopInputs : EnterLoop(in[1], in[2])
    \/ LoopPass

\* the thread that called calculate_scene_parts keeps running
SpecLoop == InitStages /\ [][NextLoop]_vars /\ WF_vars(LoopPass)

\* ------------------------------------- one scene's files, looked up by all
\* SceneDurationAnalyzer.get_scene_duration: scene_{zfill(2)}.mp3, then
\* scene_{zfill(3)}.mp3, then scene_{id}.mp3
DurationAudio(n) == FindFrom("audio", Str(n), "mp3", <<2, 3, 1>>)

\* PartImageGenerator.get_or_create_part_image, part_index 0: the original
\* image, scene_formats zfill(2), zfill(3), str(scene_id)
PartImage(n) == FindFrom("scenes", Str(n), "jpg", <<2, 3, 1>>)

\* ScenePartManager._mux_audio_into_video: audio_candidates zfill(3),
\* zfill(2), str(scene_id)
MuxAudio(n) == FindFrom("audio", Str(n), "mp3", <<3, 2, 1>>)

\* everything but lookups
probes == <<store, tasks, runs, hist, faults, callers, stageRec, failedWork,
            restarts, plan, scn, job, environ, probe, file_list, final_video,
            exits, chunkTime, partCall, stopped, sel, loop>>

\* scene n goes through the run: the scan of the manager (img, aud), the
\* duration analysis, the image of part 0 and the re-mux, on the same folders
LookUpScene(n) ==
    /\ lookups' = <<[scene |-> n,
                     scan_image |-> Img(n),
                     scan_audio |-> Aud(n),
                     duration_audio |-> DurationAudio(n),
                     part_image |-> PartImage(n),
                     mux_audio |-> MuxAudio(n)]>>
    /\ UNCHANGED probes

NextLookup ==
    \/ \E p \in {f \in Files : f.ext \in {"jpg", "mp3"}
                                 /\ IntOf(f.num) \in FindIds} : WriteFile(p)
    \/ \E n \in FindIds : LookUpScene(n)

SpecLookup == InitStages /\ [][NextLookup]_vars

\* ------------------------------------------- start_project and stop_project
\* the state but the projects' rows
flow == <<store, tasks, runs, hist, faults, callers, stageRec, failedWork,
          restarts, plan, scn, job, environ, probe, file_list, final_video,
          exits, chunkTime, partCall, sel, loop, lookups>>

\* POST /api/projects/{id}/stop: project.paused = True, committed
StopProject(p) ==
    /\ runs[p] >= 1
    /\ p \notin stopped
    /\ stopped' = stopped \cup {p}
    /\ UNCHANGED flow

\* POST /api/projects/{id}/start: project.paused = False, committed
StartProject(p) ==
    /\ p \in stopped
    /\ stopped' = stopped \ {p}
    /\ UNCHANGED flow

\* SpecStop: the run of one project, the store reachable, with the project
\* stopped and started through the API at any time.
NextStop ==
    \/ AddToQueue(RestartProject)
    \/ TaskStep
    \/ StopProject(RestartProject)
    \/ StartProject(RestartProject)

SpecStop == InitStages /\ [][NextStop]_vars

\* ------------------------------------- video_pipeline run again for a project
\* add_to_queue is called again for p while tasks of its first run are in
\* flight: video_pipeline.delay for a second run
RunAgain(p) ==
    /\ runs[p] = 1
    /\ \E t \in tasks : t.p = p /\ t.run = 1
    /\ runs' = [runs EXCEPT ![p] = 2]
    /\ tasks' = tasks \cup {Message(p, 2, "pipeline", 1, 0)}
    /\ UNCHANGED <<store, hist, callers, faults, ext>>

\* SpecAgain: one project, the store reachable, no pause and no stage that
\* raises; the project is run and run again.
NextAgain ==
    \/ AddToQueue(RestartProject)
    \/ RunAgain(RestartProject)
    \/ \E t \in tasks : VideoPipelineIsPaused(t, TRUE)
    \/ \E t \in tasks : VideoPipelineClear(t, TRUE)
    \/ \E t \in tasks : RunStage(t, TRUE)
    \/ \E t \in tasks : StartPostChunksBranches(t)
    \/ \E t \in tasks : MarkDone(t, TRUE)
    \/ \E t \in tasks : TryGenerateVideoIsPaused(t, TRUE)
    \/ \E t \in tasks : TryGenerateVideoGetVoiceover(t, TRUE)
    \/ \E t \in tasks : TryGenerateVideoGetImages(t, TRUE)
    \/ \E t \in tasks : TryGenerateVideoAcquire(t, TRUE)
    \/ \E t \in tasks : TryGenerateFinalVideoIsPaused(t, TRUE)
    \/ \E t \in tasks : TryGenerateFinalVideoAcquire(t, TRUE)

SpecAgain == InitStages /\ [][NextAgain]_vars

\* -------------------------------------------------------------- helpers
Evaluators(p) == {t \in tasks : t.p = p /\ TaskName(t) = "try_generate_video"}
TasksOf(p) == {t \in tasks : t.p = p}
Submitted == tasks' \ tasks
BothFlagsSet(p) == store[Key(p, "voiceover_ready")] /\ store[Key(p, "images_ready")]
Finished(k) == {c \in 1..MaxCallers : callers[c].key = k /\ callers[c].pc = "done"}
Winners(k) == {c \in Finished(k) : callers[c].result}

\* ------------------------------------------------------------------- C1
\* C1: of the acquire_once calls on one initially absent key that have returned
\* (store reachable, key within its TTL), exactly one returned True and all the
\* others returned False, in every interleaving.
C1_ExactlyOneAcquires ==
    \A k \in CallerKeys :
        Finished(k) # {} =>
            /\ Cardinality(Winners(k)) = 1
            /\ Cardinality(Finished(k) \ Winners(k)) = Cardinality(Finished(k)) - 1

C1_Witness ==
    \E k \in CallerKeys :
        /\ Cardinality(Finished(k)) >= 2
        /\ \A c \in 1..MaxCallers : callers[c].key = k /\ callers[c].pc = "done"

\* ------------------------------------------------------------------- C2
\* C2: an evaluation of try_generate_video reaches the gate only when its two
\* reads returned voiceover_ready and images_ready both set, each read returning
\* what the store holds at that moment; video_started is acquired and the video
\* chain is submitted only by an evaluation that is at the gate.  An evaluation
\* that saw one flag or none ends with nothing submitted and nothing acquired.
C2_LaunchOnlyIfBothReady ==
    [][\A p \in Projects :
          /\ \A m \in Submitted :
                m.p = p /\ TaskName(m) = "try_generate_video" =>
                   /\ m.pc = "get_images" /\ m.vo => store[Key(p, "voiceover_ready")]
                   /\ m.pc = "acquire" => m.vo /\ m.img /\ store[Key(p, "images_ready")]
          /\ (\/ videoSubmits'[p] > videoSubmits[p]
              \/ ~store[Key(p, "video_started")] /\ store'[Key(p, "video_started")]
              \/ (\E m \in Submitted : m.p = p /\ m.chain = "video" /\ m.idx = 1))
             => (\E t \in Evaluators(p) :
                    t.pc = "acquire" /\ t.vo /\ t.img /\ t \notin tasks')
          /\ \A t \in Evaluators(p) :
                t.pc = "get_images" /\ t \notin tasks'
                   /\ ~(t.vo /\ store[Key(p, "images_ready")]) =>
                      /\ tasks' = tasks \ {t}
                      /\ store' = store
                      /\ videoSubmits' = videoSubmits
      ]_vars

C2_Witness ==
    \E p \in Projects :
        /\ runs[p] = 1
        /\ store[Key(p, "voiceover_ready")] /\ ~store[Key(p, "images_ready")]
        /\ ~\E t \in TasksOf(p) : t.chain \in {"voiceover", "dup"}
        /\ \E t \in TasksOf(p) : t.chain = "prompts"
        /\ videoSubmits[p] = 0 /\ ~store[Key(p, "video_started")]
        /\ faults = 0

\* ------------------------------------------------------------------- C3
\* C3: in one run with the store reachable (and the gate within its TTL), however
\* the branches' evaluations and redundant evaluations of try_generate_video
\* interleave, the video chain is submitted at most once.
C3_VideoChainAtMostOnce ==
    \A p \in Projects :
        /\ videoSubmits[p] <= 1
        /\ Cardinality({t \in TasksOf(p) : t.chain = "video"}) <= 1

C3_Witness ==
    \E p \in Projects :
        /\ runs[p] = 1 /\ stale[p] = {}
        /\ videoSubmits[p] = 1
        /\ \E t \in TasksOf(p) : t.chain = "video"
        /\ Cardinality({t \in Evaluators(p) : t.pc = "acquire"}) >= 2

\* ------------------------------------------------------------------- C4
\* both branches of p's run have finished: both mark_done tasks have set their
\* flag after video_pipeline cleared the flags
BranchesDone(p) ==
    /\ runs[p] = 1
    /\ ~\E t \in TasksOf(p) : t.chain = "pipeline"
    /\ stale[p] = {}
    /\ BothFlagsSet(p)

\* C4: with the project not paused and the store reachable, once both branches
\* have finished the video chain is eventually submitted, and it is never
\* submitted twice, in whatever order the branches complete.
C4_VideoEventuallyOnce ==
    /\ \A p \in Projects : BranchesDone(p) ~> (videoSubmits[p] = 1)
    /\ [](\A p \in Projects : BranchesDone(p) => videoSubmits[p] <= 1)

C4_Witness ==
    \E p \in Projects :
        /\ BranchesDone(p)
        /\ videoSubmits[p] = 1
        /\ \E t \in TasksOf(p) : t.chain = "video" /\ t.idx = 1
        /\ Evaluators(p) = {}

\* ------------------------------------------------------------------- C5
\* C5 as stated: once the video chain has been launched, no later step launches
\* it again unless video_pipeline has cleared video_started in between.
C5_NoSecondLaunchEver ==
    [][\A p \in Projects :
          videoSubmits[p] >= 1 => videoSubmits'[p] \in {videoSubmits[p], 0}]_vars

\* C5 amended: once the video chain has been launched, no later step launches it
\* again as long as video_started has not expired and the store answered every
\* gate command since the flag was last cleared.
C5_NoSecondLaunchWhileGateHolds ==
    [][\A p \in Projects :
          videoSubmits[p] >= 1 /\ Key(p, "video_started") \notin gateLost'
             => videoSubmits'[p] \in {videoSubmits[p], 0}]_vars

C5_Witness ==
    \E p \in Projects :
        /\ videoSubmits[p] = 1
        /\ store[Key(p, "video_started")] /\ Key(p, "video_started") \notin gateLost
        /\ BothFlagsSet(p)
        /\ ~\E t \in TasksOf(p) : t.chain \in {"voiceover", "prompts"}
        /\ \E t \in TasksOf(p) : t.chain = "dup" /\ t.pc = "acquire"

\* ------------------------------------------------------------------- C6
\* C6: try_generate_final_video is submitted only by a generate_video of the same
\* chain that returned (one that raises submits nothing), send_to_cdn is enqueued
\* only by that try_generate_final_video at its gate, and while the cdn_enqueued
\* gate holds send_to_cdn is enqueued at most once after the flags were cleared.
C6_CdnOnceAfterVideo ==
    /\ [](\A p \in Projects :
             Key(p, "cdn_enqueued") \notin gateLost => cdnSubmits[p] <= 1)
    /\ [][\A m \in Submitted :
             /\ TaskName(m) = "try_generate_final_video" /\ m.pc = "queued" =>
                   /\ videoOk'[m.p]
                   /\ \E t \in tasks \ tasks' :
                         TaskName(t) = "generate_video" /\ t.p = m.p /\ t.src = m.src
             /\ TaskName(m) = "send_to_cdn" =>
                   /\ cdnSubmits'[m.p] = cdnSubmits[m.p] + 1
                   /\ \E t \in tasks \ tasks' :
                         /\ TaskName(t) = "try_generate_final_video"
                         /\ t.pc = "acquire" /\ t.p = m.p /\ t.src = m.src
         ]_vars

C6_Witness ==
    \E p \in Projects :
        /\ runs[p] = 1 /\ stale[p] = {}
        /\ cdnSubmits[p] = 1 /\ videoOk[p]
        /\ store[Key(p, "cdn_enqueued")] /\ Key(p, "cdn_enqueued") \notin gateLost
        /\ \E t \in TasksOf(p) : TaskName(t) = "send_to_cdn"

\* ------------------------------------------------------------------- C7
\* C7 as stated: a store outage never leaves the pipeline blocked at the join:
\* when both branches of the run have finished and no task of the project is left
\* in flight, the video chain has been launched.
C7_OutageNeverBlocksJoin ==
    \A p \in Projects :
        BranchesDone(p) /\ TasksOf(p) = {} /\ gateLost = {} => videoSubmits[p] >= 1

\* ------------------------------------------------------------------- C8
\* C8: no task of the run's main chain or of its two branches is in flight while
\* a flag of the project set before the run is still present, and a step of
\* video_pipeline changes no key other than the project's four run flags.
C8_FlagsClearedBeforeMainChain ==
    /\ [](\A t \in tasks : t.chain \in {"main", "voiceover", "prompts"} => stale[t.p] = {})
    /\ [][\A t \in tasks :
             TaskName(t) = "video_pipeline" /\ t \notin tasks' =>
                /\ \A k \in Keys :
                      k[1] # t.p \/ k[2] \notin RunFlags => store'[k] = store[k]
                /\ (\E m \in Submitted : m.chain = "main") =>
                      \A f \in RunFlags : f \notin stale'[t.p]
         ]_vars

C8_Witness ==
    \E p \in Projects :
        /\ \E t \in TasksOf(p) : t.chain = "main" /\ t.idx = 1
        /\ \A f \in RunFlags : ~store[Key(p, f)]
        /\ \A q \in Projects \ {p} : \A f \in RunFlags : store[Key(q, f)]

\* ------------------------------------------------------------------- C9
\* C9 as stated, for the boundary it names: while the project's pause flag is
\* set, neither the voiceover branch nor the prompts branch is submitted.
C9_PausedSubmitsNoBranch ==
    [][\A p \in Projects :
          store[Key(p, "paused")] =>
             ~\E m \in Submitted :
                 m.p = p /\ m.chain \in {"voiceover", "prompts"} /\ m.idx = 1]_vars

\* ------------------------------------------------------------------ C10
\* C10: try_generate_video or try_generate_final_video starting while the project
\* is paused ends with nothing submitted, no key changed and nothing launched;
\* clearing the pause flag submits nothing and launches nothing.
C10_PausedJoinDropped ==
    [][/\ \A t \in tasks :
             /\ TaskName(t) \in {"try_generate_video", "try_generate_final_video"}
             /\ t.pc = "queued"
             /\ store[Key(t.p, "paused")]
             /\ t \notin tasks'
             => /\ tasks' = tasks \ {t}
                /\ store' = store
                /\ videoSubmits' = videoSubmits /\ cdnSubmits' = cdnSubmits
       /\ \A p \in Projects :
             store[Key(p, "paused")] /\ ~store'[Key(p, "paused")] =>
                /\ tasks' = tasks
                /\ videoSubmits' = videoSubmits /\ cdnSubmits' = cdnSubmits
                /\ \A f \in RunFlags : store'[Key(p, f)] = store[Key(p, f)]
      ]_vars

C10_Witness ==
    \E p \in Projects :
        /\ BranchesDone(p)
        /\ ~store[Key(p, "paused")]
        /\ TasksOf(p) = {}
        /\ videoSubmits[p] = 0
        /\ ~store[Key(p, "video_started")] /\ ~store[Key(p, "cdn_enqueued")]

\* ------------------------------------------------------------------ C11
\* the stage before task t in its chain; the first task of either branch follows
\* chunks through start_post_chunks_branches
Predecessors(t) ==
    IF t.idx > 1
    THEN {ChainTasks(t.chain)[t.idx - 1]} \cap StageTasks
    ELSE IF t.chain \in {"voiceover", "prompts"} THEN {"generate_chunks"} ELSE {}

Succeeded(stage) == Row(stage).completed /\ stage \notin failedWork

\* C11 as stated: a stage whose work failed has error_message set and
\* completed = false in its Stage row, and no task that follows it in its chain is
\* submitted.
C11_FailedStageRecordedAndHalts ==
    /\ \A stage \in failedWork :
          Row(stage).error /\ ~Row(stage).completed
    /\ \A t \in tasks :
          \A pred \in Predecessors(t) : StageName(pred) \notin failedWork

\* ------------------------------------------------------------------ C12
\* C12 as stated: a stage task of the run's chains has started only if the stage
\* before it finished successfully, and a readiness flag set by the run is set
\* only if the last stage of its branch finished successfully.
C12_StartsAfterPredecessorSucceeded ==
    /\ \A t \in tasks :
          TaskName(t) \in StageTasks /\ t.pc = "running" =>
             \A pred \in Predecessors(t) : Succeeded(StageName(pred))
    /\ \A p \in Projects :
          runs[p] = 1 /\ stale[p] = {} /\ ~(\E t \in TasksOf(p) : t.chain = "pipeline") =>
             /\ store[Key(p, "voiceover_ready")] => Succeeded("voiceover")
             /\ store[Key(p, "images_ready")] => Succeeded("images")

\* ------------------------------------------------------------------ C13
\* C13: a restart_stage request for an existing stage leaves that Stage row with
\* completed = false and no error, changes no other row and no flag, and submits
\* exactly one task: the named stage's task, on its own, with no successor; when
\* that task ends nothing is submitted and no flag changes.
C13_RestartSubmitsOnlyTheStage ==
    [][/\ restarts' # restarts =>
             \E stage \in StageNames :
                /\ Row(stage).exists
                /\ Row(stage)' =
                      [exists |-> TRUE, completed |-> FALSE, error |-> FALSE]
                /\ \A other \in RequestNames \ {stage} : Row(other)' = Row(other)
                /\ store' = store
                /\ tasks \subseteq tasks'
                /\ Cardinality(Submitted) = 1
                /\ \A m \in Submitted :
                      /\ TaskName(m) = TaskMapping(stage)
                      /\ m.pc = "queued"
                      /\ Continue(m) = {}
       /\ \A t \in tasks \ tasks' :
             t.chain \in StageTasks =>
                /\ store' = store
                /\ \A m \in Submitted : m = [t EXCEPT !.pc = "running"]
      ]_vars

C13_Witness ==
    \E t \in tasks :
        /\ t.chain \in StageTasks /\ t.pc = "queued"
        /\ restarts = 1
        /\ StageName(t.chain) \in failedWork
        /\ Row(StageName(t.chain)) =
              [exists |-> TRUE, completed |-> FALSE, error |-> FALSE]
        /\ \A u \in tasks : u # t => u.chain \notin StageTasks

\* C14: for every scene duration D > 0, calculate_scene_parts returns a list of
\* (start, duration) parts whose start times are non-decreasing and whose last
\* part ends at D, and the list is the single part (0, D) whenever D <= M.
C14_PartsCoverScene ==
    (planned /\ sceneDuration > 0) =>
        /\ Len(parts) >= 1
        /\ \A i \in 1..(Len(parts) - 1) : parts[i][1] <= parts[i + 1][1]
        /\ parts[Len(parts)][1] + parts[Len(parts)][2] = sceneDuration
        /\ (sceneDuration <= config.M => parts = << <<0, sceneDuration>> >>)

\* a scene under the settings of config.py split in three parts or more
C14_Witness ==
    /\ planned
    /\ config = LTX_VIDEO_CONFIG
    /\ sceneDuration > config.M
    /\ Len(parts) >= 3

\* C15: when D > M (with 0 <= O < T <= M), every part but the last has length
\* T, each next part starts at previous start + previous duration - O, and no
\* part is shorter than T/2: a remainder shorter than T/2 is absorbed into the
\* part before it, which is then the last part and shorter than T + T/2.
C15_PartsOfLongScene ==
    (planned /\ sceneDuration > config.M /\ config.T <= config.M) =>
        /\ \A i \in 1..(Len(parts) - 1) :
              /\ parts[i][2] = config.T
              /\ parts[i + 1][1] = parts[i][1] + parts[i][2] - config.O
        /\ \A i \in 1..Len(parts) : 2 * parts[i][2] >= config.T
        /\ 2 * parts[Len(parts)][2] < 3 * config.T

\* a long scene whose last part has absorbed a remainder shorter than T/2
C15_Witness ==
    /\ planned
    /\ sceneDuration > config.M
    /\ config.T <= config.M
    /\ Len(parts) >= 2
    /\ parts[Len(parts)][2] > config.T

\* the names _find may return for scene id sid, in the order it probes them
Probes(sid) == <<Zfill(sid, 3), Zfill(sid, 2), sid>>

\* C16: for every scene id and file kind, _find returns an existing file named
\* with the id zero-padded to 3 digits, to 2 digits or unpadded whenever one
\* exists, the first in that order, and nothing otherwise; the file it returns
\* is the scene's own (its number is the scene id), whatever widths the files
\* of the other scenes have.
C16_FindProbesWidths ==
    [][found' # found =>
         LET r == found'
             P == Probes(r.sid)
             there == {i \in 1..3 : Stat(Path(r.folder, P[i], r.ext)) # "none"}
         IN  IF there = {} THEN r.path = None
             ELSE /\ r.path # None
                  /\ \E i \in there :
                        /\ r.path = Path(r.folder, P[i], r.ext)
                        /\ \A j \in there : i <= j
                  /\ Stat(r.path) # "none"
                  /\ IntOf(r.path.num) = IntOf(r.sid)]_vars

\* _find returned the 2-digit file of one scene while a 3-digit file of another
\* scene and the unpadded file of the same scene exist
C16_Witness ==
    /\ found # NoCall
    /\ found.path # None
    /\ Len(found.sid) = 1
    /\ found.path.num = Zfill(found.sid, 2)
    /\ Stat(Path(found.folder, found.sid, found.ext)) # "none"
    /\ \E n \in FindIds :
          /\ Str(n) # found.sid
          /\ Stat(Path(found.folder, Zfill(Str(n), 3), found.ext)) # "none"

\* -------------------------------------------------- the folders, as claimed
HasFile(folder, n, extn) ==
    \E z \in 1..3 : Stat(Path(folder, Zfill(Str(n), z), extn)) # "none"

HasInputs(n) == HasFile("scenes", n, "jpg") /\ HasFile("audio", n, "mp3")

HasValidBase(n) ==
    \E z \in 1..3 : Stat(Path("video", Zfill(Str(n), z), "mp4")) = "good"

InLoop == phase \in {"scan", "render"}

\* a pass of the loop that scanned the folders
ScanStep == phase = "scan" /\ <<phase, todo, missing, scanned>>' # <<phase, todo, missing, scanned>>

\* C17: a scan reports as missing exactly the scenes whose image or audio is
\* absent, and every other scene that has both and no valid base clip is
\* rendered in the cycle of that scan: it is put in todo whatever is missing,
\* the cycle ends only when todo is empty, and a scene leaves todo with a valid
\* base clip.
C17_MissingBlocksOnlyItself ==
    [][/\ ScanStep =>
            /\ missing' = {n \in SceneIds : ~HasInputs(n)}
            /\ \A n \in SceneIds :
                  (HasInputs(n) /\ ~HasValidBase(n)) =>
                      (n \in todo' /\ phase' = "render")
       /\ (phase = "render" /\ phase' # "render") => todo' = {}
       /\ \A n \in todo \ todo' : HasValidBase(n)']_vars

\* in the first run a scene was rendered in a cycle whose scan reported another
\* scene, still without image or audio, as missing
C17_Witness ==
    /\ runCount = 1
    /\ phase = "scan"
    /\ missing # {}
    /\ \A n \in missing : ~HasInputs(n)
    /\ \E n \in SceneIds \ missing : HasValidBase(n)

C19_WaitersBeforeScanAnimateAfterClip ==
    /\ [][ltx_animations' # ltx_animations /\ ltx_animations' # {} =>
             ~scanned /\ ~scanned']_vars
    /\ []((enabled /\ scanned) =>
             \A n \in SceneIds :
               n <= scene_selection_count =>
                   (n \in ltx_animations /\ WaiterOf(n) # "off"))
    /\ [][\A n \in SceneIds :
             (WaiterOf(n) # "animating" /\ WaiterOf(n)' = "animating") =>
                 Stat(Base(n)) = "good"]_vars

\* animate_scene has been called for a scene while the loop is still rendering
\* the others
C19_Witness ==
    /\ enabled
    /\ InLoop
    /\ \E n \in ltx_animations : WaiterOf(n) \in {"animating", "done"}
    /\ \E n \in SceneIds : ~HasValidBase(n)

\* C20: with remote animation enabled, _concat starts only when every launched
\* scene has a valid animated clip; when the wait budget runs out first, run()
\* raises an error naming RUNPOD_LTX_ID, and that run neither concatenates nor
\* rewrites the chunk timings.
C20_ConcatAfterAnimationsOrTimeout ==
    [][/\ (enabled /\ phase # "concat" /\ phase' = "concat") =>
            /\ phase = "wait"
            /\ \A n \in ltx_animations : Stat(Animated(n)) = "good"
       /\ (phase = "wait" /\ phase' = "failed") =>
            /\ waited' >= 15 * 60
            /\ "RUNPOD_LTX_ID" \in error'
       /\ phase = "failed" =>
            /\ phase' \in {"failed", "new"}
            /\ chunksVersion' = chunksVersion
       /\ chunksVersion' # chunksVersion => phase = "concat"
       /\ phase' = "failed" => chunksVersion' = chunksVersion]_vars

\* the wait budget ran out while a launched scene had no valid animated clip
C20_Witness ==
    /\ phase = "failed"
    /\ "RUNPOD_LTX_ID" \in error
    /\ waited >= 15 * 60
    /\ \E n \in ltx_animations : Stat(Animated(n)) # "good"

\* ------------------------------------------------------------------ C21
\* the animation job of scene n has ended without leaving an animated clip that
\* passes mp4_quick_check (animate_scene returned False or raised)
JobFailed(n) ==
    /\ n \in ltx_animations
    /\ WaiterOf(n) = "done"
    /\ ~mp4_quick_check(Animated(n))

\* run() ended on the RuntimeError of _wait_for_ltx_animation
WaitTimedOut == phase = "failed" /\ error = {"RUNPOD_LTX_ID", "base_url"}

\* C21 as stated: when the animation job of a selected scene has failed, the run
\* does not end in the failure of the wait for the animated clips: it goes on to
\* the assembly, which uses the scene's base clip.
C21_FailedJobFallsBackToBase ==
    \A n \in SceneIds : JobFailed(n) => ~WaitTimedOut

\* ------------------------------------------------------------------ C22
\* a part of the job of scene n was tried and not animated
PartFailed(n) == n \in DOMAIN job /\ job[n].animated # 0..(job[n].idx - 1)

\* C22: when a part of a scene failed in animate_scene_part (submission, status
\* FAILURE, the wait ceiling or the download), merge_scene_parts is not called
\* for the scene and no scene_NNN_animated.mp4 is made from the parts that were
\* animated.
C22_PartFailureNoMerge ==
    \A n \in PoolIds :
       PartFailed(n) => ~job[n].merge /\ ~Exists(Animated(n))

\* a job of two parts has ended with the first part animated and the second not
C22_Witness ==
    \E n \in PoolIds :
       /\ JobPc(n) = "done"
       /\ job[n].total = 2
       /\ job[n].animated = {0}
       /\ job[n].result = "False"
       /\ Exists(PartFile(n, 0))

\* ------------------------------------------------------------------ C23
\* the job of scene n has ended in failure
JobEndedFalse(n) == JobPc(n) = "done" /\ job[n].result = "False"

\* C23: a step of one scene's job changes neither the job nor the future of
\* another scene, and while one scene's job has failed, the job of every other
\* launched scene that has started still runs to its own end.
C23_SiblingJobsIndependent ==
    /\ [][\A n \in PoolIds :
            JobPc(n)' # JobPc(n) =>
               \A m \in PoolIds \ {n} :
                  JobPc(m)' = JobPc(m) /\ WaiterOf(m)' = WaiterOf(m)]_vars
    /\ \A n \in PoolIds : \A m \in PoolIds \ {n} :
          (JobEndedFalse(m) /\ WaiterOf(n) = "animating")
             ~> (WaiterOf(n) = "done" /\ JobPc(n) = "done")

\* one scene's job has failed on a part and the other scene's job has succeeded
C23_Witness ==
    \E n \in PoolIds : \E m \in PoolIds \ {n} :
       /\ JobEndedFalse(m)
       /\ PartFailed(m)
       /\ JobPc(n) = "done"
       /\ job[n].result = "True"
       /\ mp4_quick_check(Animated(n))

\* ------------------------------------------------------------------ C24
\* RUNPOD_LTX_ID is unset, empty or the placeholder
NoEndpointId == environ \in {NoVar, <<>>, Unknown}

\* C24: a run with LTX enabled and RUNPOD_LTX_ID unset, empty or 'unknown' ends
\* in the RuntimeError that names RUNPOD_LTX_ID at its first step, with no scan,
\* no clip rendered, no waiter launched and no file written.
C24_NoEndpointIdFailsFirst ==
    [][phase = "new" /\ phase' # "new" /\ enabled' /\ NoEndpointId =>
          /\ phase' = "failed"
          /\ error' = {"RUNPOD_LTX_ID"}
          /\ ~scanned' /\ todo' = {}
          /\ ltx_animations' = {} /\ DOMAIN waiter' = {}
          /\ fs' = fs]_vars

\* a run with LTX enabled has failed on the placeholder id although the inputs
\* of a scene were there to render
C24_Witness ==
    /\ phase = "failed"
    /\ error = {"RUNPOD_LTX_ID"}
    /\ enabled
    /\ environ = Unknown
    /\ \E n \in SceneIds : Img(n) # None /\ Aud(n) # None

\* ------------------------------------------------------------------ C25
\* C25 as stated: with a valid id, the probe rejects the endpoint only when no
\* request got a response outside the 5xx class: a run whose probe got such a
\* response does not fail as unreachable.
C25_ProbeAcceptsAnyNon5xx ==
    (phase = "failed" /\ error = {"unreachable"}) =>
       \A i \in 1..Len(probe) : ~AllowedNot5xx(probe[i])

\* ------------------------------------------------------------------ C26
\* _concat writes the list in this step
ConcatStep == phase = "new" /\ phase' \in {"done", "failed"} /\ file_list' # <<>>

\* the entries of the list written for scene id n
EntriesOf(list, n) == {i \in 1..Len(list) : list[i].sid = n}

\* C26 as stated: in the list _concat writes, the clip of each scene id of the
\* chunk list is the scene's animated clip (or its normalized re-encode) when
\* scene_NNN_animated.mp4 exists at that time and the scene's base clip
\* otherwise, and the scene ids of the list are strictly ascending.
C26_AnimatedPreferredInIdOrder ==
    [][ConcatStep =>
          /\ \A n \in PoolIds : \A i \in EntriesOf(file_list', n) :
                IF Exists(Animated(n))
                THEN file_list'[i].clip \in {Animated(n), NormalizedFile(n)}
                ELSE file_list'[i].clip \in BaseOf(n)
          /\ \A i \in 1..Len(file_list'), j \in 1..Len(file_list') :
                i < j => file_list'[i].sid < file_list'[j].sid]_vars

\* ------------------------------------------------------------------ C27
\* the latest _concat assembled the final video
Assembled == phase = "done" /\ final_video = "made"

\* C27 as stated: the list of an assembled final video holds exactly one clip
\* for every scene id of the chunk list and no clip for any other id, whatever
\* files the output folder holds.
C27_OneClipPerChunk ==
    Assembled =>
       /\ {file_list[i].sid : i \in 1..Len(file_list)} = PoolIds
       /\ Len(file_list) = Cardinality(PoolIds)

\* ------------------------------------------------------------------ C28
\* C28 as stated: every animated clip entered in the list has the target
\* width, height and frame rate, a clip that was off the target being replaced
\* by its re-encoded copy.
C28_AnimatedClipsInTargetFormat ==
    \A i \in 1..Len(file_list) :
       file_list[i].animated => file_list[i].content = "good"

\* ------------------------------------------------------------------ C29
\* C29 as stated: a run in which an external process of the stage (the join of
\* the parts, the audio re-mux, a normalization, ffprobe, the final concat)
\* exited non-zero does not end with an assembled final video.
C29_ProcessFailureFailsStage ==
    [][phase = "new" /\ phase' = "done" =>
          /\ exits' = {}
          /\ \A n \in DOMAIN job : job[n].failed = {}]_vars

\* ------------------------------------------------------------------ C30
\* the milliseconds a written time names
MsOf(t) == ((t[1] * 60 + t[2]) * 60 + t[3]) * 1000 + t[4]

\* C30 as stated: after an assembly every chunk has a time field, the first
\* starts at 0, each next one starts where the one before ends, and each is as
\* long as ffprobe found the clip listed for its scene.
C30_TimesTileTheVideo ==
    Assembled =>
       LET ids == Sorted(PoolIds)
       IN  \A k \in 1..Len(ids) :
              /\ ids[k] \in DOMAIN chunkTime
              /\ chunkTime[ids[k]][1] =
                    IF k = 1 THEN Fmt(0) ELSE chunkTime[ids[k - 1]][2]
              /\ \A i \in EntriesOf(file_list, ids[k]) :
                    MsOf(chunkTime[ids[k]][2]) - MsOf(chunkTime[ids[k]][1])
                       = ffprobe_duration(file_list[i])

\* ------------------------------------------------------------------ C31
\* run() has returned or raised
RunEnded == phase \in {"done", "failed"}

\* C31: run() never waits indefinitely: a run that has entered the base-clip
\* loop eventually ends, with the final video or with an error, also when a
\* scene's image, audio, base clip or remote animation never becomes available.
C31_RunAlwaysEnds == (phase = "scan") ~> RunEnded

\* ------------------------------------------------------------------ C32
\* the call has returned r
Returned(r) == Part.pc = "done" /\ Part.result = r

\* C32: animate_scene_part returns after at most ceil(600 / polling_interval)
\* status polls: after that many polls the loop has ended.  It returns True
\* only after a SUCCESS status with a result followed by a successful
\* download, and False when the submission failed, on a FAILURE status, when
\* the download failed, or when the ceiling is exhausted.
C32_PartReturnsWithinCeiling ==
    /\ Part.pc # "off" =>
          /\ Part.polls <= CeilDiv(max_wait_time, Part.interval)
          /\ Part.pc = "poll" /\ Part.polls = CeilDiv(max_wait_time, Part.interval)
                => ~LoopContinues(Part)
    /\ Returned("True") =>
          Part.status = "SUCCESS" /\ Part.ref /\ Part.downloaded
    /\ Part.pc = "done" =>
          /\ Part.result \in {"True", "False"}
          /\ Part.result = "False" <=>
                \/ Part.polls = 0
                \/ Part.status = "FAILURE"
                \/ Part.status = "SUCCESS" /\ Part.ref /\ ~Part.downloaded
                \/ /\ ~(Part.status = "SUCCESS" /\ Part.ref)
                   /\ Part.polls = CeilDiv(max_wait_time, Part.interval)
    /\ Part.pc = "poll" => ~(Part.status = "SUCCESS" /\ Part.ref)
                           /\ Part.status # "FAILURE"

\* the call returned False at the ceiling after the last allowed poll of 18
C32_Witness ==
    /\ Returned("False")
    /\ Part.interval = polling_interval
    /\ Part.polls = 18
    /\ Part.status = "PENDING"

\* ------------------------------------------------------------------ C33
\* wait_and_animate of scene n has returned: animate_scene, with the merge,
\* the audio re-mux, the normalization and the deletion of the part files
PipelineFinished(n) == WaiterOf(n) = "done"

\* C33: when _wait_for_ltx_animation has found every launched scene complete
\* and _concat runs, the animation pipeline of each of these scenes has
\* finished: no animated clip or part file that _concat reads is one the
\* animation thread still writes, replaces or is about to delete.
C33_ConcatAfterPipelines ==
    [][ConcatStep => \A n \in ltx_animations : PipelineFinished(n)]_vars

\* ------------------------------------------------------------------ C34
\* run r of p has not finished its voiceover stage and its images stage: its
\* pipeline task, its main chain or a branch up to mark_done is in flight
BranchesPending(p, r) ==
    \E t \in tasks :
        /\ t.p = p /\ t.run = r
        /\ \/ t.chain \in {"pipeline", "main"}
           \/ t.chain \in {"voiceover", "prompts"}
              /\ TaskName(t) # "try_generate_video"

\* C34: when video_pipeline is run again for a project while stage tasks of
\* its earlier run are in flight, the video assembly of the new run is not
\* launched before the new run's own voiceover and images stages have both
\* finished: readiness marked by the earlier run never satisfies its join.
C34_NewRunJoinsOwnBranches ==
    [][\A m \in Submitted :
          m.chain = "video" /\ m.run = 2 => ~BranchesPending(m.p, 2)]_vars

\* ------------------------------------------------------------------ C35
\* C35: no Stage row is at once completed and carrying an error message, in
\* every reachable state, also when two executions of the same stage task of
\* the project overlap (a restart issued while the stage is running).
C35_NeverCompletedWithError ==
    \A stage \in DOMAIN stageRec :
        ~(stageRec[stage].completed /\ stageRec[stage].error)

\* ------------------------------------------------------------------ C36
\* the tasks that start with the check of is_paused
PauseChecked == {"video_pipeline", "try_generate_video", "try_generate_final_video"}

\* C36: the flag stop_project and start_project write is the flag the
\* orchestrator reads: from the return of stop_project(p) until start_project(p)
\* every is_paused(p) check of video_pipeline, try_generate_video and
\* try_generate_final_video returns true, and the task returns at once.
C36_StopIsWhatIsPausedReads ==
    [][\A t \in tasks :
          /\ TaskName(t) \in PauseChecked
          /\ t.pc = "queued"
          /\ t.p \in stopped
          /\ t \notin tasks'
          => IsPaused(t.p) /\ tasks' = tasks \ {t}]_vars

\* ------------------------------------------------------------------ C37
\* C37: for every strategy (first_n, every_nth, custom_list), video format and
\* chunk list with ids 1..N the scenes the manager launches and waits for are
\* the scenes get_scenes_to_animate returns, so animate_scene rejects no
\* launched scene as not selected; under first_n for shorts they are at most
\* max_scenes_for_shorts.
C37_LaunchedAreSelected ==
    sel # <<>> =>
       /\ Sel.ltx_animations = Sel.scenes_to_animate
       /\ Sel.rejected = {}
       /\ Sel.cfg.strategy = "first_n" /\ Sel.fmt = "shorts" =>
             Cardinality(Sel.ltx_animations) <= max_scenes_for_shorts

\* shorts under first_n with count above the cap: three scenes launched, each
\* of them passed should_animate_scene
C37_Witness ==
    /\ sel # <<>>
    /\ Sel.cfg.strategy = "first_n" /\ Sel.fmt = "shorts"
    /\ Sel.cfg.count = scene_selection_count
    /\ Sel.total = MaxChunks
    /\ Sel.checked = 1..max_scenes_for_shorts
    /\ Sel.checked = Sel.ltx_animations

\* ------------------------------------------------------------------ C38
\* C38: no part that calculate_scene_parts returns is longer than the maximum
\* animation duration M, for every scene duration D (in tenths of a second).
C38_NoPartLongerThanMax ==
    planned => \A i \in 1..Len(parts) : parts[i][2] <= config.M

C40_LookupsAgree ==
    \A i \in 1..Len(lookups) :
        /\ lookups[i].duration_audio = lookups[i].scan_audio
        /\ lookups[i].mux_audio = lookups[i].scan_audio
        /\ lookups[i].part_image = lookups[i].scan_image

====
